---------------------------- MODULE Spec2Model ----------------------------
(***************************************************************************)
(* A model of the Mailchimp -> WordPress bridge's extraction core          *)
(* (src/processors/content_processor.py).  Strings are sequences of        *)
(* one-character strings so that strip(), lower() and the substring test   *)
(* `kw in s` are computed, not assumed.                                    *)
(***************************************************************************)
EXTENDS Integers, Sequences, FiniteSets, TLC

VARIABLES
    \* ---- _extract_text_blocks ----
    doc,          \* the parsed document: a forest of h1..h6 / p / ul / ol nodes
    tpc,          \* position inside _extract_text_blocks
    node_list,    \* soup.find_all([...]) in document order
    ti,           \* index of the node the first loop is at
    raw_blocks,   \* raw_blocks
    merged,       \* merged
    tj,           \* index of the block the merge loop is at
    last_raw,     \* index in raw_blocks of the dict that merged[-1] aliases
    text_blocks,  \* the value returned
    \* ---- _extract_content_images ----
    idoc,                \* the parsed document: its img nodes and its table#bodyTable
    ipc,                 \* position inside _extract_content_images
    all_images,          \* all_images
    ii,                  \* the index i of the first pass
    image_data,          \* image_data
    sorted_by_position,  \* sorted_by_position
    middle_images,       \* middle_images
    content_images,      \* content_images
    images,              \* the value returned
    \* ---- _extract_cta ----
    adoc,               \* the parsed document: its anchors and its content areas
    cpc,                \* position inside _extract_cta / _extract_embedded_links
    class_buttons,      \* class_buttons
    attribute_buttons,  \* attribute_buttons
    ai,                 \* index of the anchor the discovery loop is at
    all_buttons,        \* all_buttons
    bi,                 \* index of the button the scoring loop is at
    button_data,        \* button_data
    call_to_action,     \* the value _extract_cta returns
    \* ---- _extract_embedded_links ----
    links_in_content,   \* links_in_content
    lk,                 \* index of the link the current loop is at
    user_links,         \* user_links
    unique_links,       \* unique_links
    seen_urls,          \* seen_urls
    embedded_links,     \* the value _extract_embedded_links returns
    \* ---- parse_email_content ----
    campaign_data,      \* the argument
    ppc,                \* position inside parse_email_content
    soup,               \* soup
    structured,         \* structured
    parse_result,       \* the value returned
    \* ---- api/webhook_routes.py ----
    responses,          \* the requests handled so far, each with its response
    threads,            \* the background threads started so far, with their locals
    posts,              \* the draft posts WordPress has created
    processor_fields    \* the attributes of the module's content_processor instance

textVars == <<doc, tpc, node_list, ti, raw_blocks, merged, tj, last_raw, text_blocks>>

imgVars == <<idoc, ipc, all_images, ii, image_data, sorted_by_position, middle_images,
             content_images, images>>

\* cpc is written by the steps of both extractors
ctaVars == <<adoc, class_buttons, attribute_buttons, ai, all_buttons, bi,
             button_data, call_to_action>>

linkVars == <<links_in_content, lk, user_links, unique_links, seen_urls, embedded_links>>

parseVars == <<campaign_data, ppc, soup, structured, parse_result>>

hookVars == <<responses, threads, posts, processor_fields>>

vars == <<textVars, imgVars, ctaVars, cpc, linkVars, parseVars, hookVars>>

otherThanText == <<imgVars, ctaVars, cpc, linkVars, parseVars, hookVars>>
otherThanImg == <<textVars, ctaVars, cpc, linkVars, parseVars, hookVars>>
otherThanCta == <<textVars, imgVars, parseVars, hookVars>>
otherThanParse == <<textVars, imgVars, ctaVars, cpc, linkVars, hookVars>>
otherThanHook == <<textVars, imgVars, ctaVars, cpc, linkVars, parseVars>>

(***************************************************************************)
(* Strings                                                                 *)
(***************************************************************************)
Whitespace == {" ", "\n", "\t", "\r"}

RECURSIVE LStrip(_)
LStrip(s) == IF s # <<>> /\ Head(s) \in Whitespace THEN LStrip(Tail(s)) ELSE s

RECURSIVE RStrip(_)
RStrip(s) ==
    IF s # <<>> /\ s[Len(s)] \in Whitespace THEN RStrip(SubSeq(s, 1, Len(s) - 1)) ELSE s

\* str.strip()
Strip(s) == RStrip(LStrip(s))

\* `sub in s` for Python strings
Contains(s, sub) ==
    \E k \in 0..(Len(s) - Len(sub)) : SubSeq(s, k + 1, k + Len(sub)) = sub

UpperCase == <<"A","B","C","D","E","F","G","H","I","J","K","L","M",
               "N","O","P","Q","R","S","T","U","V","W","X","Y","Z">>
LowerCase == <<"a","b","c","d","e","f","g","h","i","j","k","l","m",
               "n","o","p","q","r","s","t","u","v","w","x","y","z">>

\* UpperCase[k] |-> LowerCase[k]
LowerMap ==
    ("A" :> "a") @@ ("B" :> "b") @@ ("C" :> "c") @@ ("D" :> "d") @@ ("E" :> "e") @@ ("F" :> "f") @@
    ("G" :> "g") @@ ("H" :> "h") @@ ("I" :> "i") @@ ("J" :> "j") @@ ("K" :> "k") @@ ("L" :> "l") @@
    ("M" :> "m") @@ ("N" :> "n") @@ ("O" :> "o") @@ ("P" :> "p") @@ ("Q" :> "q") @@ ("R" :> "r") @@
    ("S" :> "s") @@ ("T" :> "t") @@ ("U" :> "u") @@ ("V" :> "v") @@ ("W" :> "w") @@ ("X" :> "x") @@
    ("Y" :> "y") @@ ("Z" :> "z")

LowerChar(c) == IF c \in DOMAIN LowerMap THEN LowerMap[c] ELSE c

\* str.lower()
RECURSIVE Lower(_)
Lower(s) == IF s = <<>> THEN <<>> ELSE <<LowerChar(Head(s))>> \o Lower(Tail(s))

\* any(kw in s for kw in kws)
AnyIn(kws, s) == \E kw \in kws : Contains(s, kw)

\* " ".join(classes)
RECURSIVE JoinSpace(_)
JoinSpace(ss) ==
    IF ss = <<>> THEN <<>>
    ELSE IF Len(ss) = 1 THEN ss[1]
    ELSE ss[1] \o <<" ">> \o JoinSpace(Tail(ss))

\* Tag.get_text(strip=True) over the text pieces of a node: every piece is
\* stripped, empty pieces are dropped, the rest are joined by "".
RECURSIVE JoinStripped(_)
JoinStripped(pieces) ==
    IF pieces = <<>> THEN <<>>
    ELSE Strip(Head(pieces)) \o JoinStripped(Tail(pieces))

Range(f) == {f[k] : k \in DOMAIN f}

(***************************************************************************)
(* Text Block Extractor: the document                                      *)
(***************************************************************************)
\* Total number of elements (h*, p, ul, ol, li) of an input document.
MaxElems == 3

HeadingTags == {"h1", "h2", "h3", "h4", "h5", "h6"}
ListTags == {"ul", "ol"}

\* int(tag[-1])
TagLevel(tag) ==
    CASE tag = "h1" -> 1 [] tag = "h2" -> 2 [] tag = "h3" -> 3
      [] tag = "h4" -> 4 [] tag = "h5" -> 5 [] tag = "h6" -> 6

\* Text contents a node of an input document may have, as its text pieces.
PiecesBlank == << <<" ">> >>
PiecesA == << <<"a">> >>
PiecesBC == << <<" ", "b", " ">>, <<"c">> >>

InputPieces == {PiecesBlank, PiecesA, PiecesBC}

\* A leaf node: a heading or a paragraph.
Leaf(tag, pieces) == [tag |-> tag, pieces |-> pieces]

InputLeaves ==
    {Leaf(t, PiecesA) : t \in HeadingTags} \cup {Leaf("h3", PiecesBlank)}
        \cup {Leaf("p", p) : p \in InputPieces}

\* A list item: its own text pieces, then the block nodes nested in it.
InputItems(size) ==
    IF size = 1 THEN {[pieces |-> p, kids |-> <<>>] : p \in InputPieces}
    ELSE IF size = 2 THEN {[pieces |-> PiecesA, kids |-> <<Leaf("p", PiecesBC)>>]}
    ELSE {}

\* ItemSeqsUpTo(k)[size + 1]: the sequences of list items with `size`
\* elements in all, for size in 0..k.
RECURSIVE ItemSeqsUpTo(_)
ItemSeqsUpTo(k) ==
    IF k = 0 THEN << {<<>>} >>
    ELSE LET prev == ItemSeqsUpTo(k - 1)
         IN  Append(prev,
                    UNION {{<<it>> \o rest : it \in InputItems(m), rest \in prev[k - m + 1]} :
                           m \in 1..k})

\* Top-level nodes with `size` elements in all.
InputNodes(size, itemSeqs) ==
    (IF size = 1 THEN InputLeaves ELSE {})
        \cup {[tag |-> t, items |-> its] : t \in ListTags, its \in itemSeqs[size]}

\* ForestsUpTo(k)[size + 1]: the forests with `size` elements in all.
RECURSIVE ForestsUpTo(_)
ForestsUpTo(k) ==
    IF k = 0 THEN << {<<>>} >>
    ELSE LET prev == ForestsUpTo(k - 1)
             itemSeqs == ItemSeqsUpTo(k)
         IN  Append(prev,
                    UNION {{<<n>> \o rest : n \in InputNodes(m, itemSeqs),
                                            rest \in prev[k - m + 1]} :
                           m \in 1..k})

\* The input documents: the forests of up to k elements.
Documents(k) == UNION Range(ForestsUpTo(k))

IsHeading(node) == node.tag \in HeadingTags
IsList(node) == node.tag \in ListTags

\* The matching nodes below a list node, in document order: find_all descends
\* into the list items.
RECURSIVE ItemKids(_)
ItemKids(items) ==
    IF items = <<>> THEN <<>> ELSE Head(items).kids \o ItemKids(Tail(items))

\* soup.find_all(["h1",...,"p","ul","ol"]): every matching node in document
\* (pre-)order, nested ones included.
RECURSIVE FindAll(_)
FindAll(forest) ==
    IF forest = <<>> THEN <<>>
    ELSE LET n == Head(forest)
         IN  <<n>> \o (IF IsList(n) THEN ItemKids(n.items) ELSE <<>>)
                   \o FindAll(Tail(forest))

RECURSIVE KidsText(_)
KidsText(kids) ==
    IF kids = <<>> THEN <<>>
    ELSE JoinStripped(Head(kids).pieces) \o KidsText(Tail(kids))

\* li.get_text(strip=True): the item's own text, then its descendants'.
ItemText(it) == JoinStripped(it.pieces) \o KidsText(it.kids)

\* node.get_text(strip=True) of a heading or a paragraph
NodeText(node) == JoinStripped(node.pieces)

\* the loop over lis: the non-empty item texts, in order
RECURSIVE ListItems(_)
ListItems(items) ==
    IF items = <<>> THEN <<>>
    ELSE (IF ItemText(Head(items)) # <<>> THEN <<ItemText(Head(items))>> ELSE <<>>)
             \o ListItems(Tail(items))

\* RawBlocksOf without the `if text:` test of the paragraph branch.
RawBlocksOfKeepsEmpty(node) ==
    IF IsHeading(node) THEN
        IF NodeText(node) # <<>>
        THEN <<[type |-> "header", level |-> TagLevel(node.tag), content |-> NodeText(node)]>>
        ELSE <<>>
    ELSE IF node.tag = "p" THEN
        <<[type |-> "paragraph", content |-> NodeText(node)]>>
    ELSE IF ListItems(node.items) # <<>>
        THEN <<[type |-> "list",
                style |-> IF node.tag = "ol" THEN "ordered" ELSE "unordered",
                items |-> ListItems(node.items)]>>
        ELSE <<>>

\* One iteration of the first loop: what the node appends to raw_blocks.
RawBlocksOf(node) ==
    IF IsHeading(node) THEN
        IF NodeText(node) # <<>>
        THEN <<[type |-> "header", level |-> TagLevel(node.tag), content |-> NodeText(node)]>>
        ELSE <<>>
    ELSE IF node.tag = "p" THEN
        IF NodeText(node) # <<>>
        THEN <<[type |-> "paragraph", content |-> NodeText(node)]>>
        ELSE <<>>
    ELSE IF ListItems(node.items) # <<>>
        THEN <<[type |-> "list",
                style |-> IF node.tag = "ol" THEN "ordered" ELSE "unordered",
                items |-> ListItems(node.items)]>>
        ELSE <<>>

BlankLine == <<"\n", "\n">>

\* Whether the merge loop folds `block` into merged[-1].
Merges(m, block) ==
    block.type = "paragraph" /\ m # <<>> /\ m[Len(m)].type = "paragraph"

\* MergeStep without the merge: every block is appended.
MergeStepAppendOnly(m, block) == Append(m, block)

\* One iteration of the merge loop.
MergeStep(m, block) ==
    IF Merges(m, block)
    THEN [m EXCEPT ![Len(m)].content = @ \o BlankLine \o block.content]
    ELSE Append(m, block)

\* The whole merge loop, run from an empty `merged`.
RECURSIVE MergePass(_)
MergePass(blocks) ==
    IF blocks = <<>> THEN <<>>
    ELSE MergeStep(MergePass(SubSeq(blocks, 1, Len(blocks) - 1)), blocks[Len(blocks)])

(***************************************************************************)
(* Text Block Extractor: the steps of _extract_text_blocks                 *)
(***************************************************************************)
TextInit ==
    /\ doc \in Documents(MaxElems)
    /\ tpc = "find_all"
    /\ node_list = <<>>
    /\ ti = 1
    /\ raw_blocks = <<>>
    /\ merged = <<>>
    /\ tj = 1
    /\ last_raw = 0
    /\ text_blocks = <<>>

TextIdle ==
    /\ doc = <<>>
    /\ tpc = "idle"
    /\ node_list = <<>>
    /\ ti = 1
    /\ raw_blocks = <<>>
    /\ merged = <<>>
    /\ tj = 1
    /\ last_raw = 0
    /\ text_blocks = <<>>

TextFindAll ==
    /\ tpc = "find_all"
    /\ node_list' = FindAll(doc)
    /\ tpc' = "gather"
    /\ UNCHANGED <<doc, ti, raw_blocks, merged, tj, last_raw, text_blocks>>
    /\ UNCHANGED otherThanText

TextGatherNode ==
    /\ tpc = "gather"
    /\ ti <= Len(node_list)
    /\ raw_blocks' = raw_blocks \o RawBlocksOf(node_list[ti])
    /\ ti' = ti + 1
    /\ UNCHANGED <<doc, tpc, node_list, merged, tj, last_raw, text_blocks>>
    /\ UNCHANGED otherThanText

TextGatherDone ==
    /\ tpc = "gather"
    /\ ti > Len(node_list)
    /\ tpc' = "merge"
    /\ UNCHANGED <<doc, node_list, ti, raw_blocks, merged, tj, last_raw, text_blocks>>
    /\ UNCHANGED otherThanText

\* merged holds the very dicts of raw_blocks, so `last["content"] += ...` also
\* changes the entry of raw_blocks that merged[-1] aliases.
TextMergeBlock ==
    /\ tpc = "merge"
    /\ tj <= Len(raw_blocks)
    /\ merged' = MergeStep(merged, raw_blocks[tj])
    /\ IF Merges(merged, raw_blocks[tj])
       THEN /\ raw_blocks' = [raw_blocks EXCEPT ![last_raw].content =
                                 @ \o BlankLine \o raw_blocks[tj].content]
            /\ UNCHANGED last_raw
       ELSE /\ last_raw' = tj
            /\ UNCHANGED raw_blocks
    /\ tj' = tj + 1
    /\ UNCHANGED <<doc, tpc, node_list, ti, text_blocks>>
    /\ UNCHANGED otherThanText

TextReturn ==
    /\ tpc = "merge"
    /\ tj > Len(raw_blocks)
    /\ text_blocks' = merged
    /\ tpc' = "done"
    /\ UNCHANGED <<doc, node_list, ti, raw_blocks, merged, tj, last_raw>>
    /\ UNCHANGED otherThanText

TextNext ==
    \/ TextFindAll
    \/ TextGatherNode
    \/ TextGatherDone
    \/ TextMergeBlock
    \/ TextReturn

(***************************************************************************)
(* Image Signal Collector and Image Classifier: the document               *)
(***************************************************************************)
\* Number of img nodes of a general input document.
MaxImgs == 3
\* Number of img nodes of a long input document (one with positions whose
\* ratio is above 0.8).
LongImgs == 6

None == <<>>
Some(n) == <<n>>

\* `x or 0` for an optional integer
OrZero(x) == IF x = None THEN 0 ELSE x[1]

\* truth value of an optional integer: None and 0 are false
Truthy(x) == x # None /\ x[1] # 0

\* An img node: its attributes (what Tag.__eq__ compares) and the class lists
\* of its ancestors, nearest first.
Img(src, alt, width, height, classes, ancestors) ==
    [attrs |-> [src |-> src, alt |-> alt, width |-> width, height |-> height,
                class |-> classes],
     ancestors |-> ancestors]

ImgNoSrc == Img(<<>>, <<"x">>, <<>>, <<>>, <<>>, << <<>> >>)
ImgBig == Img(<<"b",".","p","n","g">>, <<"S","a","l","e">>, <<"3","0","0">>, <<"3","0","0">>, <<>>, << <<>> >>)
ImgLogoClass == Img(<<"c",".","p","n","g">>, <<>>, <<>>, <<>>, <<<<"l","o","g","o">>>>, << <<>> >>)
ImgSocialClass ==
    Img(<<"d",".","p","n","g">>, <<>>, <<>>, <<>>, <<<<"s","o","c","i","a","l","F","o","l","l","o","w">>>>,
        << <<>>, <<<<"s","o","c","i","a","l","F","o","l","l","o","w">>>> >>)
ImgSmall ==
    Img(<<"e",".","p","n","g">>, <<>>, <<"4","0">>, <<"4","0","p","x">>, <<<<"s","o","c","i","a","l","F","o","l","l","o","w">>>>, << <<>> >>)
ImgUiKeyword == Img(<<"u","/","L","o","g","o",".","p","n","g">>, <<>>, <<"3","0","0","p","x">>, <<"a","b","c">>, <<>>, << <<>> >>)

InputImgs == {ImgNoSrc, ImgBig, ImgLogoClass, ImgSocialClass, ImgSmall, ImgUiKeyword}
LongInputImgs == {ImgNoSrc, ImgLogoClass, ImgSocialClass, ImgSmall}

\* The img nodes of the documents of a size between the two.
MidInputImgs == {ImgBig, ImgSocialClass, ImgSmall}

SeqsOf(S, n) == [1..n -> S]

NoBodyTable == [has |-> FALSE, from |-> 1, to |-> 0]

\* The table#bodyTable of a document of n img nodes: none, one that holds no
\* img node, or one that holds the img nodes from..to.
BodyTables(n) ==
    {NoBodyTable, [has |-> TRUE, from |-> 1, to |-> 0]}
        \cup {[has |-> TRUE, from |-> f, to |-> t] : f \in 1..n, t \in 1..n}

\* The input documents: general ones of up to MaxImgs img nodes, long ones
\* of LongImgs img nodes outside any table#bodyTable, and ones of a size
\* between the two.
IsImageDocument(d) ==
    \/ \E n \in 0..MaxImgs :
          \E s \in SeqsOf(InputImgs, n), b \in BodyTables(n) :
              /\ b.has => b.from <= b.to + 1
              /\ d = [imgs |-> s, body |-> b]
    \/ \E s \in SeqsOf(LongInputImgs, LongImgs) : d = [imgs |-> s, body |-> NoBodyTable]
    \/ \E n \in (MaxImgs + 1)..(LongImgs - 1) :
          \E s \in SeqsOf(MidInputImgs, n) : d = [imgs |-> s, body |-> NoBodyTable]

(***************************************************************************)
(* Image Signal Collector                                                  *)
(***************************************************************************)
Digits == <<"0","1","2","3","4","5","6","7","8","9">>
IsDigit(c) == \E d \in 1..10 : Digits[d] = c
DigitValue(c) == (CHOOSE d \in 1..10 : Digits[d] = c) - 1

RECURSIVE DecimalValue(_)
DecimalValue(s) ==
    IF s = <<>> THEN 0
    ELSE 10 * DecimalValue(SubSeq(s, 1, Len(s) - 1)) + DigitValue(s[Len(s)])

\* str.replace(sub, ""), sub non-empty
RECURSIVE RemoveAll(_, _)
RemoveAll(s, sub) ==
    IF Len(s) < Len(sub) THEN s
    ELSE IF SubSeq(s, 1, Len(sub)) = sub THEN RemoveAll(SubSeq(s, Len(sub) + 1, Len(s)), sub)
    ELSE <<Head(s)>> \o RemoveAll(Tail(s), sub)

\* int(s): surrounding whitespace, an optional sign, then decimal digits;
\* anything else raises ValueError, which gives None here.
ParseInt(s) ==
    LET t == Strip(s)
        signed == t # <<>> /\ Head(t) \in {"+", "-"}
        digits == IF signed THEN Tail(t) ELSE t
    IN  IF digits # <<>> /\ \A k \in 1..Len(digits) : IsDigit(digits[k])
        THEN Some(IF signed /\ Head(t) = "-" THEN 0 - DecimalValue(digits)
                  ELSE DecimalValue(digits))
        ELSE None

\* _parse_dimension
ParseDimension(value) ==
    IF value = <<>> THEN None ELSE ParseInt(RemoveAll(value, <<"p","x">>))

MaxDepth == 5

\* The ancestor walk: the class tokens of the nearest MaxDepth ancestors.
RECURSIVE ParentClasses(_, _)
ParentClasses(ancestors, depth) ==
    IF ancestors = <<>> \/ depth >= MaxDepth THEN <<>>
    ELSE Head(ancestors) \o ParentClasses(Tail(ancestors), depth + 1)

\* soup.select_one('table#bodyTable') or soup, as the elements find_all() of
\* the container yields.
BodyContainer(d) ==
    IF d.body.has THEN SubSeq(d.imgs, d.body.from, d.body.to) ELSE d.imgs

\* _estimate_vertical_position: `in` and index() compare tags with ==, which
\* looks at the attributes only.
EstimateVerticalPosition(img, container) ==
    IF \E k \in 1..Len(container) : container[k].attrs = img.attrs
    THEN (CHOOSE k \in 1..Len(container) :
              /\ container[k].attrs = img.attrs
              /\ \A m \in 1..(k - 1) : container[m].attrs # img.attrs) - 1
    ELSE 0

\* A ratio num/den of naturals, den > 0, compared as the floats are.
RatioLess(r, num, den) == r.num * den < num * r.den
RatioGreater(r, num, den) == r.num * den > num * r.den

AnyClassIn(classes, names) == \E k \in 1..Len(classes) : classes[k] \in names

ContentKeywords == {
    <<"c","o","n","t","e","n","t">>, <<"a","r","t","i","c","l","e">>, <<"s","t","o","r","y">>,
     <<"b","a","n","n","e","r">>, <<"h","e","r","o">>, <<"f","e","a","t","u","r","e","d">>}
MailchimpContentClasses == {
    <<"m","c","e","I","m","a","g","e">>,
     <<"i","m","a","g","e","D","r","o","p","Z","o","n","e">>}

\* _is_likely_content_image
IsLikelyContentImage(r) ==
    \/ AnyClassIn(r.classes, ContentKeywords)
    \/ AnyClassIn(r.parent_classes, ContentKeywords)
    \/ AnyClassIn(r.classes, MailchimpContentClasses)
    \/ /\ (OrZero(r.width) > 200 \/ OrZero(r.height) > 200)
       /\ ~RatioLess(r.position_ratio, 1, 5)
       /\ ~RatioGreater(r.position_ratio, 4, 5)

UiKeywords ==
    {
    <<"l","o","g","o">>, <<"f","o","o","t","e","r">>, <<"h","e","a","d","e","r">>,
     <<"i","c","o","n">>, <<"s","o","c","i","a","l">>, <<"f","a","c","e","b","o","o","k">>,
     <<"t","w","i","t","t","e","r">>, <<"i","n","s","t","a","g","r","a","m">>,
     <<"l","i","n","k","e","d","i","n">>, <<"y","o","u","t","u","b","e">>,
     <<"b","u","t","t","o","n">>, <<"p","i","x","e","l">>, <<"t","r","a","c","k","i","n","g">>,
     <<"s","p","a","c","e","r">>, <<"s","i","g","n","a","t","u","r","e">>}
TrackingIndicators ==
    {
    <<"p","i","x","e","l">>, <<"t","r","a","c","k","i","n","g">>, <<"s","p","a","c","e","r">>,
     <<"t","r","a","n","s","p","a","r","e","n","t",".","g","i","f">>,
     <<"m","a","i","l","c","h","i","m","p",".","c","o","m">>,
     <<"l","i","s","t","-","m","a","n","a","g","e",".","c","o","m">>}

\* _is_likely_ui_element
IsLikelyUiElement(r) ==
    \/ AnyIn(UiKeywords, Lower(r.url))
    \/ AnyIn(UiKeywords, Lower(r.alt))
    \/ r.is_small
    \/ AnyIn(TrackingIndicators, Lower(r.url))

LogoKeywords == {
    <<"l","o","g","o">>, <<"h","e","a","d","e","r">>, <<"b","r","a","n","d">>}
HeaderClasses == {
    <<"l","o","g","o">>, <<"h","e","a","d","e","r">>, <<"b","r","a","n","d">>,
     <<"m","c","e","L","o","g","o">>}
HeaderContainers == {
    <<"m","c","e","H","e","a","d","e","r">>,
     <<"m","c","e","S","e","c","t","i","o","n","H","e","a","d","e","r">>}

\* _is_likely_header
IsLikelyHeader(r) ==
    /\ RatioLess(r.position_ratio, 1, 5)
    /\ \/ AnyIn(LogoKeywords, Lower(r.url))
       \/ AnyIn(LogoKeywords, Lower(r.alt))
       \/ AnyClassIn(r.classes, HeaderClasses)
       \/ AnyClassIn(r.parent_classes, HeaderContainers)
       \/ (Truthy(r.width) /\ OrZero(r.width) < 200)

FooterKeywords ==
    {
    <<"f","o","o","t","e","r">>, <<"s","o","c","i","a","l">>,
     <<"f","a","c","e","b","o","o","k">>, <<"t","w","i","t","t","e","r">>,
     <<"i","n","s","t","a","g","r","a","m">>, <<"l","i","n","k","e","d","i","n">>,
     <<"y","o","u","t","u","b","e">>, <<"c","o","n","t","a","c","t">>,
     <<"s","i","g","n","a","t","u","r","e">>}
FooterContainers == {
    <<"m","c","e","F","o","o","t","e","r">>,
     <<"m","c","e","S","e","c","t","i","o","n","F","o","o","t","e","r">>,
     <<"s","o","c","i","a","l","F","o","l","l","o","w">>}

\* _is_likely_footer with at_bottom = position_ratio > 0.6
IsLikelyFooterFromThreeFifths(r) ==
    /\ RatioGreater(r.position_ratio, 3, 5)
    /\ \/ AnyIn(FooterKeywords, Lower(r.url))
       \/ AnyIn(FooterKeywords, Lower(r.alt))
       \/ AnyClassIn(r.parent_classes, FooterContainers)
       \/ r.is_small

\* _is_likely_footer
IsLikelyFooter(r) ==
    /\ RatioGreater(r.position_ratio, 4, 5)
    /\ \/ AnyIn(FooterKeywords, Lower(r.url))
       \/ AnyIn(FooterKeywords, Lower(r.alt))
       \/ AnyClassIn(r.parent_classes, FooterContainers)
       \/ r.is_small

\* `if not src: continue` lets the node through
HasSrcAlways(img) == TRUE

\* the test of `if not src: continue`
HasSrc(img) == img.attrs.src # <<>>

\* ImageRecord with the positions counted from 1
ImageRecordCountingFromOne(img, i, n, container) ==
    LET w == ParseDimension(img.attrs.width)
        h == ParseDimension(img.attrs.height)
        base == [url |-> img.attrs.src,
                 alt |-> img.attrs.alt,
                 width |-> w,
                 height |-> h,
                 position |-> i + 1,
                 position_ratio |-> [num |-> i + 1, den |-> n],
                 classes |-> img.attrs.class,
                 parent_classes |-> ParentClasses(img.ancestors, 0),
                 y_position |-> EstimateVerticalPosition(img, container),
                 is_small |-> IF Truthy(w) /\ Truthy(h)
                              THEN (w[1] < 50 \/ h[1] < 50) ELSE FALSE]
    IN  base @@ ("is_likely_content" :> IsLikelyContentImage(base))
             @@ ("is_likely_ui" :> IsLikelyUiElement(base))

\* The record the first pass builds for all_images[i + 1] (i counts from 0).
ImageRecord(img, i, n, container) ==
    LET w == ParseDimension(img.attrs.width)
        h == ParseDimension(img.attrs.height)
        base == [url |-> img.attrs.src,
                 alt |-> img.attrs.alt,
                 width |-> w,
                 height |-> h,
                 position |-> i,
                 position_ratio |-> [num |-> i, den |-> n],
                 classes |-> img.attrs.class,
                 parent_classes |-> ParentClasses(img.ancestors, 0),
                 y_position |-> EstimateVerticalPosition(img, container),
                 is_small |-> IF Truthy(w) /\ Truthy(h)
                              THEN (w[1] < 50 \/ h[1] < 50) ELSE FALSE]
    IN  base @@ ("is_likely_content" :> IsLikelyContentImage(base))
             @@ ("is_likely_ui" :> IsLikelyUiElement(base))

(***************************************************************************)
(* Image Classifier                                                        *)
(***************************************************************************)
\* sorted(records, key=y_position): stable, ascending
RECURSIVE SortedByPosition(_)
SortedByPosition(records) ==
    IF records = <<>> THEN <<>>
    ELSE LET x == records[Len(records)]
             s == SortedByPosition(SubSeq(records, 1, Len(records) - 1))
             k == Cardinality({m \in 1..Len(s) : s[m].y_position <= x.y_position})
         IN  SubSeq(s, 1, k) \o <<x>> \o SubSeq(s, k + 1, Len(s))

\* records[start:end], start >= 0, end None or negative
Slice(records, start, end) ==
    SubSeq(records, start + 1, IF end = None THEN Len(records) ELSE Len(records) + end[1])

Area(r) == OrZero(r.width) * OrZero(r.height)

\* max(records, key=area): the first record of the largest area
LargestImage(records) ==
    records[CHOOSE k \in 1..Len(records) :
                /\ \A m \in 1..Len(records) : Area(records[m]) <= Area(records[k])
                /\ \A m \in 1..(k - 1) : Area(records[m]) < Area(records[k])]

NotUi(r) == ~r.is_likely_ui

\* start_idx
StartIdx(sorted) == IF IsLikelyHeader(sorted[1]) THEN 1 ELSE 0

\* end_idx, never -1
EndIdxKeepsFooter(sorted) == None

\* end_idx
EndIdx(sorted) == IF IsLikelyFooter(sorted[Len(sorted)]) THEN Some(0 - 1) ELSE None

\* the selection for 1-2 images, with the header trimming applied as well
KeepFewTrimmed(records) ==
    SelectSeq(IF records # <<>> /\ IsLikelyHeader(records[1]) THEN Tail(records) ELSE records,
              NotUi)

\* the selection for 1-2 images
KeepFew(records) == SelectSeq(records, NotUi)

\* the fallback taking the first middle record
FallbackToFirst(kept, middle) ==
    IF kept = <<>> /\ middle # <<>> THEN <<middle[1]>> ELSE kept

\* the fallback of the selection for more than 2 images
Fallback(kept, middle) ==
    IF kept = <<>> /\ middle # <<>> THEN <<LargestImage(middle)>> ELSE kept

\* [{'url': ..., 'alt': ...} for img in content_images]
ExpectedFormat(records) ==
    [k \in 1..Len(records) |-> [url |-> records[k].url, alt |-> records[k].alt]]

(***************************************************************************)
(* The steps of _extract_content_images                                    *)
(***************************************************************************)
ImgInit ==
    /\ IsImageDocument(idoc)
    /\ ipc = "select"
    /\ all_images = <<>>
    /\ ii = 0
    /\ image_data = <<>>
    /\ sorted_by_position = <<>>
    /\ middle_images = <<>>
    /\ content_images = <<>>
    /\ images = <<>>

ImgIdle ==
    /\ idoc = [imgs |-> <<>>, body |-> NoBodyTable]
    /\ ipc = "idle"
    /\ all_images = <<>>
    /\ ii = 0
    /\ image_data = <<>>
    /\ sorted_by_position = <<>>
    /\ middle_images = <<>>
    /\ content_images = <<>>
    /\ images = <<>>

\* soup.select('img')
ImgSelect ==
    /\ ipc = "select"
    /\ all_images' = idoc.imgs
    /\ ii' = 0
    /\ ipc' = "collect"
    /\ UNCHANGED <<idoc, image_data, sorted_by_position, middle_images, content_images,
                   images>>
    /\ UNCHANGED otherThanImg

\* one iteration of the first pass
ImgCollect ==
    /\ ipc = "collect"
    /\ ii < Len(all_images)
    /\ image_data' =
           IF HasSrc(all_images[ii + 1])
           THEN Append(image_data,
                       ImageRecord(all_images[ii + 1], ii, Len(all_images),
                                   BodyContainer(idoc)))
           ELSE image_data
    /\ ii' = ii + 1
    /\ UNCHANGED <<idoc, ipc, all_images, sorted_by_position, middle_images,
                   content_images, images>>
    /\ UNCHANGED otherThanImg

\* the second pass, total_images <= 2
ImgKeepFew ==
    /\ ipc = "collect"
    /\ ii >= Len(all_images)
    /\ Len(image_data) <= 2
    /\ content_images' = KeepFew(image_data)
    /\ ipc' = "format"
    /\ UNCHANGED <<idoc, all_images, ii, image_data, sorted_by_position, middle_images,
                   images>>
    /\ UNCHANGED otherThanImg

\* the second pass, total_images > 2
ImgTrimMany ==
    /\ ipc = "collect"
    /\ ii >= Len(all_images)
    /\ Len(image_data) > 2
    /\ sorted_by_position' = SortedByPosition(image_data)
    /\ middle_images' = Slice(sorted_by_position', StartIdx(sorted_by_position'),
                              EndIdx(sorted_by_position'))
    /\ content_images' = Fallback(SelectSeq(middle_images', NotUi), middle_images')
    /\ ipc' = "format"
    /\ UNCHANGED <<idoc, all_images, ii, image_data, images>>
    /\ UNCHANGED otherThanImg

\* the return statement
ImgReturn ==
    /\ ipc = "format"
    /\ images' = ExpectedFormat(content_images)
    /\ ipc' = "done"
    /\ UNCHANGED <<idoc, all_images, ii, image_data, sorted_by_position, middle_images,
                   content_images>>
    /\ UNCHANGED otherThanImg

ImgNext ==
    \/ ImgSelect
    \/ ImgCollect
    \/ ImgKeepFew
    \/ ImgTrimMany
    \/ ImgReturn

(***************************************************************************)
(* CTA Detector and Embedded Link Extractor: the document                  *)
(***************************************************************************)
\* Number of anchors of an input document.
MaxAnchors == 3

\* An anchor: its attributes, its text pieces and its parent element.
Anchor(classes, style, href, role, pieces, parent) ==
    [class |-> classes, style |-> style, href |-> href, role |-> role,
     pieces |-> pieces, parent |-> parent]

Parent(name, style, classes) == [name |-> name, style |-> style, class |-> classes]

PlainParent == Parent(<<"p">>, <<>>, <<>>)

ABtnClass == Anchor(<<<<"b","t","n">>>>, <<>>, <<"/","/","x","/","a">>, <<>>, <<<<"G","o">>>>, PlainParent)
ARoleButton == Anchor(<<>>, <<>>, <<"/","/","x","/","b">>, <<"b","u","t","t","o","n">>, <<<<" ","G","o"," ">>>>, PlainParent)
ACtaBuy == Anchor(<<<<"c","t","a">>>>, <<>>, <<"/","/","x","/","c">>, <<>>, <<<<"B","u","y"," ","N","o","w">>>>, PlainParent)
APlain == Anchor(<<>>, <<>>, <<"/","/","x","/","d">>, <<>>, <<<<"O","u","r"," ","s","t","o","r","y">>>>, PlainParent)
AUtilityCta ==
    Anchor(<<<<"c","t","a">>>>, <<"b","a","c","k","g","r","o","u","n","d",":","r","e","d",";","d","i","s","p","l","a","y",":","b","l","o","c","k">>, <<"h","t","t","p","s",":","/","/","F","a","c","e","b","o","o","k",".","c","o","m","/","p","a","g","e">>,
           <<>>, <<<<"L","i","k","e"," ","u","s">>>>, PlainParent)
AUtilityText ==
    Anchor(<<>>, <<>>, <<"/","/","x","/","p">>, <<>>, <<<<"P","r","i","v","a","c","y"," ","P","o","l","i","c","y">>>>,
           Parent(<<"t","d">>, <<"P","A","D","D","I","N","G",":","4","p","x">>, <<>>))
APlainAgain == Anchor(<<>>, <<>>, <<"/","/","x","/","d">>, <<>>, <<<<"M","o","r","e">>>>, PlainParent)
AAction == Anchor(<<<<"a","c","t","i","o","n">>>>, <<>>, <<"/","/","x","/","s">>, <<>>, <<<<"S","i","g","n"," ","u","p">>>>, PlainParent)

InputAnchors ==
    {ABtnClass, ARoleButton, ACtaBuy, APlain, AUtilityCta, AUtilityText, APlainAgain,
     AAction}

\* The anchors of the documents that have content containers.
AreaInputAnchors == {APlain, AUtilityCta, ABtnClass}

\* The anchors of the documents that have two content containers.
TwoAreaInputAnchors == {APlain, AAction}

\* Anchors with role=button whose class, text, style and parent vary over
\* what the priority score looks at.
ScoredClasses == {<<>>, <<<<"b","t","n">>>>, <<<<"c","t","a">>>>, <<<<"b","t","n">>, <<"P","r","i","m","a","r","y">>>>}
ScoredTexts ==
    {<<<<"B","u","y"," ","N","o","w">>>>, <<<<"G","o">>>>,
     <<<<" ","x","x","x","x","x","x","x","x","x","x","x","x","x","x","x","x","x","x","x","x","x","x","x","x","x","x","x","x","x"," ">>>>,
     <<<<"x","x","x","x","x","x","x","x","x","x","x","x","x","x","x","x","x","x","x","x","x","x","x","x","x","x","x","x","x","x">>>>,
     <<<<"L","e","a","r","n"," ","m","o","r","e"," ","a","b","o","u","t"," ","u","s"," ","a","n","d"," ","o","u","r"," ","t","e","a","m">>>>}
ScoredStyles ==
    {<<>>, <<"F","O","N","T","-","W","E","I","G","H","T",":","B","O","L","D">>, <<"b","a","c","k","g","r","o","u","n","d",":","r","e","d">>, <<"f","o","n","t","-","w","e","i","g","h","t",":","6","0","0",";","c","o","l","o","r",":","r","e","d">>}
ScoredParents ==
    {PlainParent, Parent(<<"t","d">>, <<"t","e","x","t","-","a","l","i","g","n",":","C","E","N","T","E","R">>, <<>>),
     Parent(<<"d","i","v">>, <<>>, <<<<"c","e","n","t","e","r">>>>), Parent(<<"d","i","v">>, <<>>, <<<<"C","e","n","t","e","r">>>>)}

ScoredAnchors ==
    {Anchor(c, s, <<"/","/","x","/","f">>, <<"b","u","t","t","o","n">>, t, p) :
        c \in ScoredClasses, s \in ScoredStyles, t \in ScoredTexts, p \in ScoredParents}

\* The scored anchors whose classes hold none of cta, action, primary, main.
UnclassedAnchors == {a \in ScoredAnchors : a.class \in {<<>>, <<<<"b","t","n">>>>}}

\* A content area: the anchors from..to of the document are inside it.
Areas(n) == {[from |-> f, to |-> t] : f \in 1..(n + 1), t \in 0..n}

\* The input documents: the anchors in document order and the elements that
\* carry a content-container class, in document order.
IsAnchorDocument(d) ==
    \/ \E n \in 0..MaxAnchors :
          \/ \E s \in SeqsOf(InputAnchors, n) : d = [anchors |-> s, areas |-> <<>>]
          \/ \E s \in SeqsOf(AreaInputAnchors, n), a \in Areas(n) :
                /\ a.from <= a.to + 1
                /\ a.from = a.to + 1 => a.from = 1
                /\ d = [anchors |-> s, areas |-> <<a>>]
          \/ \E s \in SeqsOf(TwoAreaInputAnchors, n), a \in Areas(n), b \in Areas(n) :
                /\ a.from <= a.to /\ b.from <= b.to
                /\ \/ a.from <= b.from /\ b.to <= a.to     \* b is nested in a
                   \/ a.to < b.from                        \* b follows a
                /\ d = [anchors |-> s, areas |-> <<a, b>>]
    \* one scored anchor, or the "Buy Now" anchor of class cta and a scored
    \* anchor without a cta, action, primary or main class, in either order
    \/ \E a \in ScoredAnchors : d = [anchors |-> <<a>>, areas |-> <<>>]
    \/ \E a \in UnclassedAnchors :
          \/ d = [anchors |-> <<ACtaBuy, a>>, areas |-> <<>>]
          \/ d = [anchors |-> <<a, ACtaBuy>>, areas |-> <<>>]

(***************************************************************************)
(* CTA Detector                                                            *)
(***************************************************************************)
ButtonClasses == {
    <<"m","c","n","B","u","t","t","o","n">>, <<"b","u","t","t","o","n">>, <<"b","t","n">>,
     <<"c","t","a">>, <<"a","c","t","i","o","n">>,
     <<"p","r","i","m","a","r","y","-","b","u","t","t","o","n">>,
     <<"m","c","-","b","u","t","t","o","n">>}

\* soup.select("a.mcnButton, a.button, ..."): the anchor has one of the classes
IsClassButton(a) == AnyClassIn(a.class, ButtonClasses)

\* Tag.__eq__: the same name, attributes and contents; the parent is not
\* looked at.
SameTag(a, b) ==
    /\ a.class = b.class
    /\ a.style = b.style
    /\ a.href = b.href
    /\ a.role = b.role
    /\ a.pieces = b.pieces

\* `a_tag in class_buttons`
InButtons(a, buttons) == \E k \in 1..Len(buttons) : SameTag(buttons[k], a)

ButtonStyles == {
    <<"p","a","d","d","i","n","g">>, <<"b","o","r","d","e","r","-","r","a","d","i","u","s">>,
     <<"b","a","c","k","g","r","o","u","n","d">>}
ButtonDisplays == {
    <<"b","l","o","c","k">>, <<"i","n","l","i","n","e","-","b","l","o","c","k">>,
     <<"c","e","n","t","e","r">>}
ButtonCellStyles == {
    <<"p","a","d","d","i","n","g">>, <<"b","o","r","d","e","r","-","r","a","d","i","u","s">>,
     <<"b","a","c","k","g","r","o","u","n","d">>, <<"c","e","n","t","e","r">>}

\* The second discovery rule, for an anchor not found by class.
IsAttributeButton(a) ==
    \/ /\ AnyIn(ButtonStyles, Lower(a.style))
       /\ AnyIn(ButtonDisplays, Lower(a.style))
    \/ /\ a.parent.name = <<"t","d">>
       /\ AnyIn(ButtonCellStyles, Lower(a.parent.style))
    \/ a.role = <<"b","u","t","t","o","n">>

AnchorText(a) == JoinStripped(a.pieces)

CtaClassKeywords == {
    <<"c","t","a">>, <<"a","c","t","i","o","n">>, <<"p","r","i","m","a","r","y">>,
     <<"m","a","i","n">>}
CtaPhrases ==
    {
    <<"l","e","a","r","n"," ","m","o","r","e">>, <<"r","e","a","d"," ","m","o","r","e">>,
     <<"s","i","g","n"," ","u","p">>, <<"r","e","g","i","s","t","e","r">>,
     <<"b","u","y"," ","n","o","w">>, <<"g","e","t"," ","s","t","a","r","t","e","d">>,
     <<"j","o","i","n">>, <<"s","u","b","s","c","r","i","b","e">>,
     <<"d","o","w","n","l","o","a","d">>, <<"s","h","o","p">>, <<"v","i","e","w">>,
     <<"c","l","i","c","k"," ","h","e","r","e">>, <<"d","i","s","c","o","v","e","r">>}

WeightWords == {
    <<"b","o","l","d">>, <<"w","e","i","g","h","t">>}
ColorWords == {
    <<"b","a","c","k","g","r","o","u","n","d">>, <<"b","g">>, <<"c","o","l","o","r">>}
AlignWords == {
    <<"c","e","n","t","e","r">>, <<"a","l","i","g","n">>,
     <<"m","a","r","g","i","n",":","a","u","t","o">>}

\* _calculate_cta_priority measuring the text before it is trimmed and
\* comparing the parent's classes in lower case
CalculateCtaPriorityUntrimmed(a, text) ==
    (IF AnyIn(CtaClassKeywords, Lower(JoinSpace(a.class))) THEN 10 ELSE 0)
  + (IF AnyIn(CtaPhrases, Lower(text)) THEN 5 ELSE 0)
  + (IF Len(a.pieces[1]) < 30 THEN 3 ELSE 0)
  + (IF AnyIn(WeightWords, Lower(a.style)) THEN 2 ELSE 0)
  + (IF AnyIn(ColorWords, Lower(a.style)) THEN 2 ELSE 0)
  + (IF \E align \in AlignWords :
            \/ Contains(Lower(a.parent.style), align)
            \/ Contains(Lower(JoinSpace(a.parent.class)), align)
     THEN 2 ELSE 0)

\* _calculate_cta_priority
CalculateCtaPriority(a, text) ==
    (IF AnyIn(CtaClassKeywords, Lower(JoinSpace(a.class))) THEN 10 ELSE 0)
  + (IF AnyIn(CtaPhrases, Lower(text)) THEN 5 ELSE 0)
  + (IF Len(text) < 30 THEN 3 ELSE 0)
  + (IF AnyIn(WeightWords, Lower(a.style)) THEN 2 ELSE 0)
  + (IF AnyIn(ColorWords, Lower(a.style)) THEN 2 ELSE 0)
  + (IF \E align \in AlignWords :
            \/ Contains(Lower(a.parent.style), align)
            \/ Contains(JoinSpace(a.parent.class), align)
     THEN 2 ELSE 0)

UtilityPatterns ==
    {
    <<"f","a","c","e","b","o","o","k",".","c","o","m">>,
     <<"t","w","i","t","t","e","r",".","c","o","m">>,
     <<"i","n","s","t","a","g","r","a","m",".","c","o","m">>,
     <<"l","i","n","k","e","d","i","n",".","c","o","m">>,
     <<"y","o","u","t","u","b","e",".","c","o","m">>,
     <<"p","i","n","t","e","r","e","s","t",".","c","o","m">>,
     <<"t","i","k","t","o","k",".","c","o","m">>,
     <<"m","a","i","l","c","h","i","m","p",".","c","o","m">>,
     <<"l","i","s","t","-","m","a","n","a","g","e",".","c","o","m">>,
     <<"f","o","r","w","a","r","d"," ","t","o"," ","a"," ","f","r","i","e","n","d">>,
     <<"u","n","s","u","b","s","c","r","i","b","e">>,
     <<"p","r","e","f","e","r","e","n","c","e","s">>,
     <<"v","i","e","w"," ","i","n"," ","b","r","o","w","s","e","r">>,
     <<"p","r","i","v","a","c","y"," ","p","o","l","i","c","y">>, <<"t","e","r","m","s">>,
     <<"c","o","n","t","a","c","t"," ","u","s">>, <<"h","e","l","p">>, <<"f","a","q">>}

\* _is_utility_link, testing the url only
IsUtilityLinkUrlOnly(text, url) == AnyIn(UtilityPatterns, Lower(url))

\* _is_utility_link
IsUtilityLink(text, url) ==
    \E pattern \in UtilityPatterns :
        Contains(Lower(text), pattern) \/ Contains(Lower(url), pattern)

\* all_buttons = class_buttons + attribute_buttons
AllButtons(classButtons, attributeButtons) == classButtons \o attributeButtons

\* sorted(button_data, key=priority_score, reverse=True): stable, descending
RECURSIVE SortedByPriority(_)
SortedByPriority(data) ==
    IF data = <<>> THEN <<>>
    ELSE LET x == data[Len(data)]
             s == SortedByPriority(SubSeq(data, 1, Len(data) - 1))
             k == Cardinality({m \in 1..Len(s) : s[m].priority_score >= x.priority_score})
         IN  SubSeq(s, 1, k) \o <<x>> \o SubSeq(s, k + 1, Len(s))

\* the first button in the order given, whatever its score
FirstFound(data) == data[1]

\* sorted_buttons[0]
TopButton(data) == SortedByPriority(data)[1]

\* del result["priority_score"]
WithoutScore(b) == [f \in DOMAIN b \ {"priority_score"} |-> b[f]]

(***************************************************************************)
(* Embedded Link Extractor                                                 *)
(***************************************************************************)
ContentContainers ==
    {
    <<"m","c","n","T","e","x","t","C","o","n","t","e","n","t">>,
     <<"m","c","n","T","e","x","t","C","o","n","t","e","n","t","C","o","n","t","a","i","n","e","r">>,
     <<"c","o","n","t","e","n","t","C","o","n","t","a","i","n","e","r">>,
     <<"b","o","d","y","C","o","n","t","a","i","n","e","r">>,
     <<"c","o","n","t","e","n","t","B","l","o","c","k">>}

\* for area in content_areas: links_in_content.extend(area.find_all('a'))
RECURSIVE LinksInAreas(_, _)
LinksInAreas(anchors, areas) ==
    IF areas = <<>> THEN <<>>
    ELSE SubSeq(anchors, Head(areas).from, Head(areas).to)
             \o LinksInAreas(anchors, Tail(areas))

\* Every anchor of the document, whatever the content areas.
LinksInContentEverywhere(d) == d.anchors

\* links_in_content
LinksInContent(d) ==
    IF d.areas # <<>> THEN LinksInAreas(d.anchors, d.areas) ELSE d.anchors

StartsWith(s, prefix) == Len(s) >= Len(prefix) /\ SubSeq(s, 1, Len(prefix)) = prefix

TrackingDomains ==
    {
    <<"d","o","u","b","l","e","c","l","i","c","k",".","n","e","t">>,
     <<"g","o","o","g","l","e","-","a","n","a","l","y","t","i","c","s",".","c","o","m">>,
     <<"m","a","i","l","c","h","i","m","p",".","c","o","m","/","t","r","a","c","k">>,
     <<"l","i","s","t","-","m","a","n","a","g","e",".","c","o","m","/","t","r","a","c","k">>,
     <<"a","n","a","l","y","t","i","c","s">>, <<"p","i","x","e","l">>,
     <<"b","e","a","c","o","n">>}

\* _is_tracking_or_anchor_link
IsTrackingOrAnchorLink(url) ==
    \/ url = <<>>
    \/ url = <<"#">>
    \/ StartsWith(url, <<"j","a","v","a","s","c","r","i","p","t",":">>)
    \/ StartsWith(url, <<"#">>)
    \/ AnyIn(TrackingDomains, Lower(url))

ButtonWords == {
    <<"b","u","t","t","o","n">>, <<"b","t","n">>, <<"c","t","a">>}

ButtonProperties == {
    <<"p","a","d","d","i","n","g",":">>,
     <<"b","a","c","k","g","r","o","u","n","d","-","c","o","l","o","r",":">>,
     <<"b","o","r","d","e","r","-","r","a","d","i","u","s",":">>}

\* _is_likely_button
IsLikelyButton(a) ==
    \/ AnyIn(ButtonWords, Lower(JoinSpace(a.class)))
    \/ AnyIn(ButtonProperties, Lower(a.style))
    \/ a.role = <<"b","u","t","t","o","n">>
    \/ AnyIn(ButtonWords, Lower(JoinSpace(a.parent.class)))

\* Whether the filter loop of _extract_embedded_links keeps the link.
KeepsLink(a) ==
    LET text == AnchorText(a)
        url == a.href
    IN  /\ text # <<>> /\ url # <<>>
        /\ ~IsUtilityLink(text, url)
        /\ ~IsTrackingOrAnchorLink(url)
        /\ ~IsLikelyButton(a)

(***************************************************************************)
(* The steps of _extract_cta, then of _extract_embedded_links              *)
(***************************************************************************)
CtaInit ==
    /\ IsAnchorDocument(adoc)
    /\ cpc = "select"
    /\ class_buttons = <<>>
    /\ attribute_buttons = <<>>
    /\ ai = 1
    /\ all_buttons = <<>>
    /\ bi = 1
    /\ button_data = <<>>
    /\ call_to_action = None
    /\ links_in_content = <<>>
    /\ lk = 1
    /\ user_links = <<>>
    /\ unique_links = <<>>
    /\ seen_urls = {}
    /\ embedded_links = <<>>

CtaIdle ==
    /\ adoc = [anchors |-> <<>>, areas |-> <<>>]
    /\ cpc = "idle"
    /\ class_buttons = <<>>
    /\ attribute_buttons = <<>>
    /\ ai = 1
    /\ all_buttons = <<>>
    /\ bi = 1
    /\ button_data = <<>>
    /\ call_to_action = None
    /\ links_in_content = <<>>
    /\ lk = 1
    /\ user_links = <<>>
    /\ unique_links = <<>>
    /\ seen_urls = {}
    /\ embedded_links = <<>>

\* class_buttons = soup.select(class_selector)
CtaSelectClassButtons ==
    /\ cpc = "select"
    /\ class_buttons' = SelectSeq(adoc.anchors, IsClassButton)
    /\ cpc' = "scan"
    /\ UNCHANGED <<adoc, attribute_buttons, ai, all_buttons, bi, button_data,
                   call_to_action>>
    /\ UNCHANGED linkVars
    /\ UNCHANGED otherThanCta

\* one iteration of the loop over soup.find_all('a')
CtaScanAnchor ==
    /\ cpc = "scan"
    /\ ai <= Len(adoc.anchors)
    /\ attribute_buttons' =
           IF ~InButtons(adoc.anchors[ai], class_buttons) /\ IsAttributeButton(adoc.anchors[ai])
           THEN Append(attribute_buttons, adoc.anchors[ai])
           ELSE attribute_buttons
    /\ ai' = ai + 1
    /\ UNCHANGED <<adoc, cpc, class_buttons, all_buttons, bi, button_data, call_to_action>>
    /\ UNCHANGED linkVars
    /\ UNCHANGED otherThanCta

\* all_buttons is empty: return None
CtaNoButtons ==
    /\ cpc = "scan"
    /\ ai > Len(adoc.anchors)
    /\ AllButtons(class_buttons, attribute_buttons) = <<>>
    /\ call_to_action' = None
    /\ cpc' = "links"
    /\ UNCHANGED <<adoc, class_buttons, attribute_buttons, ai, all_buttons, bi, button_data>>
    /\ UNCHANGED linkVars
    /\ UNCHANGED otherThanCta

CtaCombine ==
    /\ cpc = "scan"
    /\ ai > Len(adoc.anchors)
    /\ AllButtons(class_buttons, attribute_buttons) # <<>>
    /\ all_buttons' = AllButtons(class_buttons, attribute_buttons)
    /\ cpc' = "process"
    /\ UNCHANGED <<adoc, class_buttons, attribute_buttons, ai, bi, button_data,
                   call_to_action>>
    /\ UNCHANGED linkVars
    /\ UNCHANGED otherThanCta

\* one iteration of the loop over all_buttons
CtaProcessButton ==
    /\ cpc = "process"
    /\ bi <= Len(all_buttons)
    /\ LET btn == all_buttons[bi]
           text == AnchorText(btn)
           url == btn.href
       IN  button_data' =
               IF IsUtilityLink(text, url) THEN button_data
               ELSE Append(button_data,
                           [text |-> text, url |-> url,
                            priority_score |-> CalculateCtaPriority(btn, text)])
    /\ bi' = bi + 1
    /\ UNCHANGED <<adoc, cpc, class_buttons, attribute_buttons, ai, all_buttons,
                   call_to_action>>
    /\ UNCHANGED linkVars
    /\ UNCHANGED otherThanCta

\* button_data is not empty: return the first of the sorted buttons
CtaReturnTop ==
    /\ cpc = "process"
    /\ bi > Len(all_buttons)
    /\ button_data # <<>>
    /\ call_to_action' = Some(WithoutScore(TopButton(button_data)))
    /\ cpc' = "links"
    /\ UNCHANGED <<adoc, class_buttons, attribute_buttons, ai, all_buttons, bi, button_data>>
    /\ UNCHANGED linkVars
    /\ UNCHANGED otherThanCta

\* button_data is empty: return None
CtaReturnNone ==
    /\ cpc = "process"
    /\ bi > Len(all_buttons)
    /\ button_data = <<>>
    /\ call_to_action' = None
    /\ cpc' = "links"
    /\ UNCHANGED <<adoc, class_buttons, attribute_buttons, ai, all_buttons, bi, button_data>>
    /\ UNCHANGED linkVars
    /\ UNCHANGED otherThanCta

\* content_areas and links_in_content
LinkSelect ==
    /\ cpc = "links"
    /\ links_in_content' = LinksInContent(adoc)
    /\ cpc' = "filter"
    /\ UNCHANGED <<lk, user_links, unique_links, seen_urls, embedded_links>>
    /\ UNCHANGED ctaVars
    /\ UNCHANGED otherThanCta

\* one iteration of the filter loop
LinkFilter ==
    /\ cpc = "filter"
    /\ lk <= Len(links_in_content)
    /\ user_links' =
           IF KeepsLink(links_in_content[lk])
           THEN Append(user_links, [text |-> AnchorText(links_in_content[lk]),
                                    url |-> links_in_content[lk].href])
           ELSE user_links
    /\ lk' = lk + 1
    /\ UNCHANGED <<cpc, links_in_content, unique_links, seen_urls, embedded_links>>
    /\ UNCHANGED ctaVars
    /\ UNCHANGED otherThanCta

LinkFilterDone ==
    /\ cpc = "filter"
    /\ lk > Len(links_in_content)
    /\ lk' = 1
    /\ cpc' = "dedupe"
    /\ UNCHANGED <<links_in_content, user_links, unique_links, seen_urls, embedded_links>>
    /\ UNCHANGED ctaVars
    /\ UNCHANGED otherThanCta

\* The whole record as the key.
DedupeKeyWholeLink(link) == link

\* url = link["url"]
DedupeKey(link) == link.url

\* one iteration of the de-duplication loop
LinkDedupe ==
    /\ cpc = "dedupe"
    /\ lk <= Len(user_links)
    /\ IF DedupeKey(user_links[lk]) \notin seen_urls
       THEN /\ seen_urls' = seen_urls \cup {DedupeKey(user_links[lk])}
            /\ unique_links' = Append(unique_links, user_links[lk])
       ELSE UNCHANGED <<seen_urls, unique_links>>
    /\ lk' = lk + 1
    /\ UNCHANGED <<cpc, links_in_content, user_links, embedded_links>>
    /\ UNCHANGED ctaVars
    /\ UNCHANGED otherThanCta

LinkReturn ==
    /\ cpc = "dedupe"
    /\ lk > Len(user_links)
    /\ embedded_links' = unique_links
    /\ cpc' = "done"
    /\ UNCHANGED <<links_in_content, lk, user_links, unique_links, seen_urls>>
    /\ UNCHANGED ctaVars
    /\ UNCHANGED otherThanCta

CtaNext ==
    \/ CtaSelectClassButtons
    \/ CtaScanAnchor
    \/ CtaNoButtons
    \/ CtaCombine
    \/ CtaProcessButton
    \/ CtaReturnTop
    \/ CtaReturnNone
    \/ LinkSelect
    \/ LinkFilter
    \/ LinkFilterDone
    \/ LinkDedupe
    \/ LinkReturn

(***************************************************************************)
(* The extractors as whole calls                                           *)
(***************************************************************************)
\* The first loop of _extract_text_blocks over node_list.
RECURSIVE GatherBlocks(_)
GatherBlocks(nodes) ==
    IF nodes = <<>> THEN <<>>
    ELSE RawBlocksOf(Head(nodes)) \o GatherBlocks(Tail(nodes))

\* _extract_text_blocks(soup)
ExtractTextBlocks(forest) == MergePass(GatherBlocks(FindAll(forest)))

\* image_data after the first pass has seen the first k images.
RECURSIVE CollectImages(_, _)
CollectImages(d, k) ==
    IF k = 0 THEN <<>>
    ELSE IF HasSrc(d.imgs[k])
         THEN Append(CollectImages(d, k - 1),
                     ImageRecord(d.imgs[k], k - 1, Len(d.imgs), BodyContainer(d)))
         ELSE CollectImages(d, k - 1)

\* The second pass, for more than 2 records.
TrimMany(data) ==
    LET sorted == SortedByPosition(data)
        middle == Slice(sorted, StartIdx(sorted), EndIdx(sorted))
    IN  Fallback(SelectSeq(middle, NotUi), middle)

\* _extract_content_images(soup)
ExtractContentImages(d) ==
    LET data == CollectImages(d, Len(d.imgs))
    IN  ExpectedFormat(IF Len(data) <= 2 THEN KeepFew(data) ELSE TrimMany(data))

\* The loop of _extract_cta over all_buttons.
RECURSIVE ButtonData(_)
ButtonData(buttons) ==
    IF buttons = <<>> THEN <<>>
    ELSE LET btn == buttons[Len(buttons)]
             text == AnchorText(btn)
             rest == ButtonData(SubSeq(buttons, 1, Len(buttons) - 1))
         IN  IF IsUtilityLink(text, btn.href) THEN rest
             ELSE Append(rest, [text |-> text, url |-> btn.href,
                                priority_score |-> CalculateCtaPriority(btn, text)])

\* _extract_cta(soup)
ExtractCta(d) ==
    LET classButtons == SelectSeq(d.anchors, IsClassButton)
        ByAttribute(a) == ~InButtons(a, classButtons) /\ IsAttributeButton(a)
        buttons == AllButtons(classButtons, SelectSeq(d.anchors, ByAttribute))
        data == ButtonData(buttons)
    IN  IF buttons = <<>> \/ data = <<>> THEN None
        ELSE Some(WithoutScore(TopButton(data)))

\* The de-duplication loop of _extract_embedded_links.
RECURSIVE UniqueLinks(_)
UniqueLinks(links) ==
    IF links = <<>> THEN <<>>
    ELSE LET link == links[Len(links)]
             front == SubSeq(links, 1, Len(links) - 1)
         IN  IF \E m \in 1..Len(front) : DedupeKey(front[m]) = DedupeKey(link)
             THEN UniqueLinks(front)
             ELSE Append(UniqueLinks(front), link)

LinkRecord(a) == [text |-> AnchorText(a), url |-> a.href]

\* The filter loop of _extract_embedded_links.
RECURSIVE UserLinks(_)
UserLinks(links) ==
    IF links = <<>> THEN <<>>
    ELSE IF KeepsLink(Head(links))
         THEN <<LinkRecord(Head(links))>> \o UserLinks(Tail(links))
         ELSE UserLinks(Tail(links))

\* _extract_embedded_links(soup)
ExtractEmbeddedLinks(d) == UniqueLinks(UserLinks(LinksInContent(d)))

(***************************************************************************)
(* Content Assembler: parse_email_content                                  *)
(***************************************************************************)
\* dict.get(key, default)
Get(d, key, default) == IF key \in DOMAIN d THEN d[key] ELSE default

\* The parsed document of an html text: the block nodes, the img nodes with
\* table#bodyTable, the anchors with the content containers.
Markup(forest, imageDoc, anchorDoc) ==
    [text |-> forest, images |-> imageDoc, links |-> anchorDoc]

NoImages == [imgs |-> <<>>, body |-> NoBodyTable]
NoAnchors == [anchors |-> <<>>, areas |-> <<>>]

\* BeautifulSoup(html, "html.parser"); the empty string has no nodes.
BeautifulSoup(html) == IF html = <<>> THEN Markup(<<>>, NoImages, NoAnchors) ELSE html

InputForests ==
    {<<>>, <<Leaf("h2", PiecesA), Leaf("p", PiecesA), Leaf("p", PiecesBC)>>}

InputImageDocs ==
    {NoImages,
     [imgs |-> <<ImgNoSrc>>, body |-> NoBodyTable],
     [imgs |-> <<ImgBig>>, body |-> NoBodyTable],
     [imgs |-> <<ImgLogoClass, ImgBig, ImgSocialClass>>, body |-> NoBodyTable]}

InputAnchorDocs ==
    {NoAnchors,
     [anchors |-> <<APlain>>, areas |-> <<>>],
     [anchors |-> <<AUtilityCta>>, areas |-> <<>>],
     [anchors |-> <<ABtnClass, ACtaBuy, APlain>>, areas |-> <<>>]}

\* The html bodies of the input campaigns; <<>> is the empty string.
InputHtml ==
    {<<>>} \cup {Markup(f, i, a) : f \in InputForests, i \in InputImageDocs,
                                   a \in InputAnchorDocs}

InputSubjects == {<<>>, <<"H", "i">>}

\* The campaign objects: each of html and subject_line may be missing.
InputCampaigns ==
    {[html |-> h, subject_line |-> t] : h \in InputHtml, t \in InputSubjects}
        \cup {[html |-> h] : h \in InputHtml}
        \cup {[subject_line |-> t] : t \in InputSubjects}
        \cup {<<>>}

\* The title with a placeholder for a missing subject line.
TitleOrUntitled(campaign) ==
    Get(campaign, "subject_line", <<"U", "n", "t", "i", "t", "l", "e", "d">>)

\* campaign_data.get("subject_line", "")
Title(campaign) == Get(campaign, "subject_line", <<>>)

\* parse_email_content as one call
ParseEmailContent(campaign) ==
    LET parsed == BeautifulSoup(Get(campaign, "html", <<>>))
    IN  [title |-> Title(campaign),
         text_blocks |-> ExtractTextBlocks(parsed.text),
         images |-> ExtractContentImages(parsed.images),
         call_to_action |-> ExtractCta(parsed.links),
         embedded_links |-> ExtractEmbeddedLinks(parsed.links)]

ParseInit ==
    /\ campaign_data \in InputCampaigns
    /\ ppc = "begin"
    /\ soup = <<>>
    /\ structured = <<>>
    /\ parse_result = <<>>

ParseIdle ==
    /\ campaign_data = <<>>
    /\ ppc = "idle"
    /\ soup = <<>>
    /\ structured = <<>>
    /\ parse_result = <<>>

\* html, soup and the initial `structured`
ParseBegin ==
    /\ ppc = "begin"
    /\ soup' = BeautifulSoup(Get(campaign_data, "html", <<>>))
    /\ structured' = [title |-> Title(campaign_data),
                      text_blocks |-> <<>>,
                      images |-> <<>>,
                      call_to_action |-> None,
                      embedded_links |-> <<>>]
    /\ ppc' = "text_blocks"
    /\ UNCHANGED <<campaign_data, parse_result>>
    /\ UNCHANGED otherThanParse

ParseTextBlocks ==
    /\ ppc = "text_blocks"
    /\ structured' = [structured EXCEPT !.text_blocks = ExtractTextBlocks(soup.text)]
    /\ ppc' = "images"
    /\ UNCHANGED <<campaign_data, soup, parse_result>>
    /\ UNCHANGED otherThanParse

ParseImages ==
    /\ ppc = "images"
    /\ structured' = [structured EXCEPT !.images = ExtractContentImages(soup.images)]
    /\ ppc' = "call_to_action"
    /\ UNCHANGED <<campaign_data, soup, parse_result>>
    /\ UNCHANGED otherThanParse

ParseCallToAction ==
    /\ ppc = "call_to_action"
    /\ structured' = [structured EXCEPT !.call_to_action = ExtractCta(soup.links)]
    /\ ppc' = "embedded_links"
    /\ UNCHANGED <<campaign_data, soup, parse_result>>
    /\ UNCHANGED otherThanParse

ParseEmbeddedLinks ==
    /\ ppc = "embedded_links"
    /\ structured' = [structured EXCEPT !.embedded_links = ExtractEmbeddedLinks(soup.links)]
    /\ ppc' = "return"
    /\ UNCHANGED <<campaign_data, soup, parse_result>>
    /\ UNCHANGED otherThanParse

\* return structured
ParseReturn ==
    /\ ppc = "return"
    /\ parse_result' = structured
    /\ ppc' = "returned"
    /\ UNCHANGED <<campaign_data, soup, structured>>
    /\ UNCHANGED otherThanParse

ParseNext ==
    \/ ParseBegin
    \/ ParseTextBlocks
    \/ ParseImages
    \/ ParseCallToAction
    \/ ParseEmbeddedLinks
    \/ ParseReturn

(***************************************************************************)
(* Webhook layer: api/webhook_routes.py                                    *)
(***************************************************************************)
\* Number of requests the endpoint receives.
MaxRequests == 2

\* JSON null / Python None where a string or a dict is expected
Null == [null |-> TRUE]

\* JSON values
JObject(members) == [kind |-> "object", members |-> members]
JString(s) == [kind |-> "string", value |-> s]
JNull == [kind |-> "null"]

\* A request: its method, its form fields, and get_json(silent=True)
\* (JNull when the body is not JSON).
Request(method, form, json) == [method |-> method, form |-> form, json |-> json]

NoForm == <<>>

InputRequests ==
    {Request("GET", NoForm, JNull),
     Request("HEAD", NoForm, JNull),
     Request("POST", [type |-> "campaign", id |-> "c1"], JNull),
     Request("POST", [type |-> "campaign"], JNull),
     Request("POST", NoForm, JObject([data |-> JObject([id |-> JString("c2")])])),
     Request("POST", NoForm, JObject([data |-> JObject([id |-> JString("c3")])])),
     Request("POST", NoForm, JNull),
     Request("POST", NoForm, JObject([data |-> JNull]))}

\* What Mailchimp holds for the campaign ids: the content object with the
\* subject line added.
CampaignStore(id) ==
    CASE id = "c1" ->
           [html |-> Markup(<<Leaf("h2", PiecesA), Leaf("p", PiecesBC)>>,
                            [imgs |-> <<ImgBig, ImgLogoClass>>, body |-> NoBodyTable],
                            [anchors |-> <<ABtnClass>>, areas |-> <<>>]),
            subject_line |-> <<"H", "i">>]
      [] id = "c2" ->
           [html |-> Markup(<<Leaf("p", PiecesA)>>, NoImages, NoAnchors),
            subject_line |-> <<>>]
      [] OTHER -> [html |-> Null, subject_line |-> <<"N", "o">>]

\* The outcome of a call: a value or an exception.
Returns(v) == [raised |-> FALSE, value |-> v]
Raises == [raised |-> TRUE]

\* dict.get(key) on a JSON value with a default; anything but an object has
\* no get.
JGet(j, key, default) ==
    IF j.kind # "object" THEN Raises
    ELSE Returns(Get(j.members, key, default))

\* _extract_campaign_id; the form field is called id here for data[id]
ExtractCampaignId(request) ==
    IF request.form # NoForm
    THEN Returns(IF "id" \in DOMAIN request.form THEN JString(request.form.id) ELSE JNull)
    ELSE LET data == IF request.json = JNull THEN JObject(<<>>) ELSE request.json
             inner == JGet(data, "data", JObject(<<>>))
         IN  IF inner.raised THEN Raises ELSE JGet(inner.value, "id", JNull)

\* `not campaign_id`
Falsy(j) == j = JNull \/ (j.kind = "string" /\ j.value = "")

OkResponse == [status |-> 200, body |-> "OK"]
NoIdResponse == [status |-> 400, body |-> [error |-> "No campaign ID found"]]
ErrorResponse == [status |-> 500, body |-> [error |-> "exception"]]

\* The reply that reports the campaign as processed.
SuccessResponse(id) == [status |-> 200, body |-> [status |-> "success", campaign_id |-> id]]

QueuedResponse(id) == [status |-> 200, body |-> [status |-> "queued", campaign_id |-> id]]

\* The value mailchimp_webhook returns.
HandlerResponse(request) ==
    IF request.method \in {"GET", "HEAD"} THEN OkResponse
    ELSE LET id == ExtractCampaignId(request)
         IN  IF id.raised THEN ErrorResponse
             ELSE IF Falsy(id.value) THEN NoIdResponse
             ELSE QueuedResponse(id.value.value)

\* StartsThread with one run per campaign id
StartsThreadOncePerCampaign(request) ==
    /\ request.method \notin {"GET", "HEAD"}
    /\ ~ExtractCampaignId(request).raised
    /\ ~Falsy(ExtractCampaignId(request).value)
    /\ \A t \in 1..Len(threads) :
           threads[t].campaign_id # ExtractCampaignId(request).value.value

\* Whether mailchimp_webhook starts a thread for the request.
StartsThread(request) ==
    /\ request.method \notin {"GET", "HEAD"}
    /\ ~ExtractCampaignId(request).raised
    /\ ~Falsy(ExtractCampaignId(request).value)

\* Thread(target=_process_campaign_async, args=(campaign_id,)) once started
NewThread(id) ==
    [campaign_id |-> id, pc |-> "fetch", campaign_data |-> <<>>, soup |-> <<>>,
     structured |-> <<>>, i |-> 0, uploaded_images |-> <<>>, log |-> <<>>]

\* The fields of the ContentProcessor instance after a call; the class
\* assigns no attribute.
FieldsKeepingSoup(fields, parsed) == [soup |-> parsed]

FieldsAfterCall(fields, parsed) == fields

\* BeautifulSoup(None) raises
ParseRaises(campaign) == Get(campaign, "html", <<>>) = Null

\* url.split("/")[-1] or "mailchimp-image.jpg"
RECURSIVE LastSegment(_)
LastSegment(url) ==
    IF \E k \in 1..Len(url) : url[k] = "/"
    THEN LastSegment(Tail(url))
    ELSE url

DefaultFilename ==
    <<"m","a","i","l","c","h","i","m","p","-","i","m","a","g","e",".","j","p","g">>

ExtractFilename(url) == IF LastSegment(url) = <<>> THEN DefaultFilename ELSE LastSegment(url)

\* The media object WordPress answers an upload with.
MediaItem(filename) == [id |-> Len(filename), source_url |-> <<"w", "p", "/">> \o filename]

\* The entry process_and_upload_images appends for an uploaded image.
UploadedImage(img) ==
    LET item == MediaItem(ExtractFilename(img.url))
    IN  [media_id |-> item.id, url |-> item.source_url, alt |-> img.alt]

\* post_data of create_post
PostData(title, textBlocks, imgs, cta, links) ==
    LET meta == [newsletter_text_blocks |-> textBlocks,
                 newsletter_images |-> imgs,
                 newsletter_cta |-> cta]
    IN  [title |-> title, status |-> "draft", content |-> <<>>,
         meta |-> IF links # <<>>
                  THEN meta @@ ("newsletter_embedded_links" :> links)
                  ELSE meta]

HookInit ==
    /\ responses = <<>>
    /\ threads = <<>>
    /\ posts = <<>>
    /\ processor_fields = <<>>

\* mailchimp_webhook handles one request
Webhook ==
    /\ Len(responses) < MaxRequests
    /\ \E request \in InputRequests :
          /\ responses' = Append(responses, [request |-> request,
                                             response |-> HandlerResponse(request)])
          /\ threads' = IF StartsThread(request)
                        THEN Append(threads,
                                    NewThread(ExtractCampaignId(request).value.value))
                        ELSE threads
    /\ UNCHANGED <<posts, processor_fields>>
    /\ UNCHANGED otherThanHook

\* 1. get_complete_campaign: the Mailchimp API answers or fails
RunFetch(t) ==
    /\ threads[t].pc = "fetch"
    /\ \E ok \in BOOLEAN :
          threads' = [threads EXCEPT ![t] =
              IF ok
              THEN [@ EXCEPT !.campaign_data = CampaignStore(threads[t].campaign_id),
                             !.pc = "parse",
                             !.log = Append(@, "fetch")]
              ELSE [@ EXCEPT !.pc = "failed", !.log = Append(@, "fetch_failed")]]
    /\ UNCHANGED <<responses, posts, processor_fields>>
    /\ UNCHANGED otherThanHook

\* 2. parse_email_content, up to soup
RunParseBegin(t) ==
    /\ threads[t].pc = "parse"
    /\ threads' = [threads EXCEPT ![t] =
           IF ParseRaises(threads[t].campaign_data)
           THEN [@ EXCEPT !.pc = "failed", !.log = Append(@, "parse_failed")]
           ELSE [@ EXCEPT !.soup = BeautifulSoup(Get(threads[t].campaign_data, "html", <<>>)),
                          !.pc = "extract"]]
    /\ UNCHANGED <<responses, posts, processor_fields>>
    /\ UNCHANGED otherThanHook

\* 2. parse_email_content, the four extractors and the return
RunParseExtract(t) ==
    /\ threads[t].pc = "extract"
    /\ threads' = [threads EXCEPT ![t] =
           [@ EXCEPT !.structured =
                         [title |-> Title(threads[t].campaign_data),
                          text_blocks |-> ExtractTextBlocks(threads[t].soup.text),
                          images |-> ExtractContentImages(threads[t].soup.images),
                          call_to_action |-> ExtractCta(threads[t].soup.links),
                          embedded_links |-> ExtractEmbeddedLinks(threads[t].soup.links)],
                     !.pc = "upload",
                     !.log = Append(@, "parse")]]
    /\ processor_fields' = FieldsAfterCall(processor_fields, threads[t].soup)
    /\ UNCHANGED <<responses, posts>>
    /\ UNCHANGED otherThanHook

\* The thread after the try block of the loop body succeeded.
ImageUploaded(thread) ==
    [thread EXCEPT !.uploaded_images =
                       Append(@, UploadedImage(thread.structured.images[thread.i + 1])),
                   !.i = @ + 1,
                   !.log = Append(@, "image")]

\* A failed image ends the run.
ImageFailureAborts(thread) ==
    [thread EXCEPT !.pc = "failed", !.log = Append(@, "image_failed")]

\* The thread after the except branch of the loop body: continue.
ImageSkipped(thread) ==
    [thread EXCEPT !.i = @ + 1, !.log = Append(@, "image_failed")]

\* 3. one iteration of the loop of process_and_upload_images: the download
\* and the upload succeed, or one of them fails and the image is skipped
RunUploadImage(t) ==
    /\ threads[t].pc = "upload"
    /\ threads[t].i < Len(threads[t].structured.images)
    /\ \E ok \in BOOLEAN :
          threads' = [threads EXCEPT ![t] =
              IF ok THEN ImageUploaded(threads[t]) ELSE ImageSkipped(threads[t])]
    /\ UNCHANGED <<responses, posts, processor_fields>>
    /\ UNCHANGED otherThanHook

\* 4. create_post: WordPress creates the draft or the request fails
RunCreatePost(t) ==
    /\ threads[t].pc = "upload"
    /\ threads[t].i >= Len(threads[t].structured.images)
    /\ \E ok \in BOOLEAN :
          IF ok
          THEN /\ posts' = Append(posts,
                       PostData(threads[t].structured.title,
                                threads[t].structured.text_blocks,
                                threads[t].uploaded_images,
                                threads[t].structured.call_to_action,
                                threads[t].structured.embedded_links))
               /\ threads' = [threads EXCEPT ![t] =
                       [@ EXCEPT !.pc = "done", !.log = Append(@, "post")]]
          ELSE /\ posts' = posts
               /\ threads' = [threads EXCEPT ![t] =
                       [@ EXCEPT !.pc = "failed", !.log = Append(@, "post_failed")]]
    /\ UNCHANGED <<responses, processor_fields>>
    /\ UNCHANGED otherThanHook

\* A request is handled, or one background thread takes a step.
HookNext ==
    \/ Webhook
    \/ \E t \in 1..Len(threads) : RunFetch(t)
    \/ \E t \in 1..Len(threads) : RunParseBegin(t)
    \/ \E t \in 1..Len(threads) : RunParseExtract(t)
    \/ \E t \in 1..Len(threads) : RunUploadImage(t)
    \/ \E t \in 1..Len(threads) : RunCreatePost(t)

InitImages == ImgInit /\ TextIdle /\ CtaIdle /\ ParseIdle /\ HookInit

SpecImages == InitImages /\ [][ImgNext]_vars

InitText == TextInit /\ ImgIdle /\ CtaIdle /\ ParseIdle /\ HookInit

InitCta == CtaInit /\ TextIdle /\ ImgIdle /\ ParseIdle /\ HookInit

SpecCta == InitCta /\ [][CtaNext]_vars

InitParse == ParseInit /\ TextIdle /\ ImgIdle /\ CtaIdle /\ HookInit

SpecParse == InitParse /\ [][ParseNext]_vars

InitHook == HookInit /\ TextIdle /\ ImgIdle /\ CtaIdle /\ ParseIdle

SpecHook == InitHook /\ [][HookNext]_vars

SpecText == InitText /\ [][TextNext]_vars

(***************************************************************************)
(* Text Block Extractor: properties                                        *)
(***************************************************************************)
NoAdjacentParagraphs(blocks) ==
    \A k \in 1..(Len(blocks) - 1) :
        ~(blocks[k].type = "paragraph" /\ blocks[k + 1].type = "paragraph")

\* C1: the block sequence _extract_text_blocks returns has no two adjacent
\* paragraph blocks, and running the merge pass again on it returns it unchanged.
C1_MergeInvariant ==
    tpc = "done" =>
        /\ NoAdjacentParagraphs(text_blocks)
        /\ MergePass(text_blocks) = text_blocks

\* A returned sequence in which two source paragraphs were merged and which
\* holds another block as well.
C1_Witness ==
    /\ tpc = "done"
    /\ Len(text_blocks) >= 2
    /\ Len(raw_blocks) > Len(text_blocks)
    /\ \E k \in 1..Len(text_blocks) :
           text_blocks[k].type = "paragraph" /\ Contains(text_blocks[k].content, BlankLine)

\* A document whose list items hold no nested block nodes.
IsFlat(forest) ==
    \A k \in 1..Len(forest) :
        IsList(forest[k]) => \A m \in 1..Len(forest[k].items) : forest[k].items[m].kids = <<>>

\* The reference result of the claim, written from its wording: the block of
\* one node (none when the node is skipped) ...
RefItems(items) ==
    LET keep == SelectSeq(items, LAMBDA it : JoinStripped(it.pieces) # <<>>)
    IN  [k \in 1..Len(keep) |-> JoinStripped(keep[k].pieces)]

RefBlock(node) ==
    CASE IsList(node) ->
            IF RefItems(node.items) = <<>> THEN <<>>
            ELSE <<[type |-> "list",
                    style |-> IF node.tag = "ol" THEN "ordered" ELSE "unordered",
                    items |-> RefItems(node.items)]>>
      [] JoinStripped(node.pieces) = <<>> /\ ~IsList(node) -> <<>>
      [] node.tag = "p" /\ JoinStripped(node.pieces) # <<>> ->
            <<[type |-> "paragraph", content |-> JoinStripped(node.pieces)]>>
      [] OTHER ->
            <<[type |-> "header",
               level |-> CHOOSE l \in 1..6 : node.tag = <<"h1","h2","h3","h4","h5","h6">>[l],
               content |-> JoinStripped(node.pieces)]>>

\* ... and the blocks of a forest: each maximal run of paragraphs is one
\* paragraph block, built from the right.
RECURSIVE Reference(_)
Reference(forest) ==
    IF forest = <<>> THEN <<>>
    ELSE LET b == RefBlock(Head(forest))
             r == Reference(Tail(forest))
         IN  IF b = <<>> THEN r
             ELSE IF b[1].type = "paragraph" /\ r # <<>> /\ r[1].type = "paragraph"
                  THEN <<[type |-> "paragraph",
                          content |-> b[1].content \o BlankLine \o r[1].content]>> \o Tail(r)
                  ELSE b \o r

\* C2: for a sequence of top-level heading, paragraph and list nodes,
\* _extract_text_blocks returns exactly the reference result: empty nodes are
\* skipped, headings and lists give one block each, each maximal run of
\* remaining paragraphs gives one block joined by blank lines, in source order.
C2_ReferenceResult ==
    (tpc = "done" /\ IsFlat(doc)) => text_blocks = Reference(doc)

\* A flat document whose result holds a header, a merged paragraph and
\* nothing else, one source node having been skipped or merged.
C2_Witness ==
    /\ tpc = "done"
    /\ IsFlat(doc)
    /\ Len(doc) = 3
    /\ Len(text_blocks) = 2
    /\ text_blocks[1].type = "header"
    /\ text_blocks[2].type = "paragraph"
    /\ Contains(text_blocks[2].content, BlankLine)

(***************************************************************************)
(* Image Signal Collector and Image Classifier: properties                 *)
(***************************************************************************)
\* C3: an img node whose src is missing or empty never appears in the images
\* output: no output image has an empty url, on any of the selection paths.
C3_NoEmptyUrl ==
    /\ \A k \in 1..Len(image_data) : image_data[k].url # <<>>
    /\ ipc = "done" => /\ \A k \in 1..Len(images) : images[k].url # <<>>
                       /\ Len(images) <= Cardinality({k \in 1..Len(all_images) :
                                                         all_images[k].attrs.src # <<>>})

\* A finished run over a document with an img node without src and more than
\* two records, with a non-empty output.
C3_Witness ==
    /\ ipc = "done"
    /\ \E k \in 1..Len(all_images) : all_images[k].attrs.src = <<>>
    /\ Len(image_data) > 2
    /\ images # <<>>

\* The records of image_data that are among `kept`, in document order.
InDocumentOrder(kept) == SelectSeq(image_data, LAMBDA r : r \in Range(kept))

\* C4: with at most 2 image records the output is exactly the records whose
\* isLikelyUi signal is false, in document order, with no trimming or fallback.
C4_FewImages ==
    (ipc = "done" /\ Len(image_data) <= 2) =>
        /\ \A k \in 1..Len(image_data) :
              (image_data[k] \in Range(content_images)) <=> ~IsLikelyUiElement(image_data[k])
        /\ content_images = InDocumentOrder(content_images)
        /\ images = ExpectedFormat(InDocumentOrder(content_images))

\* Two records, the first a header-like image that is no UI element, the
\* second a UI element: only the first is kept.
C4_Witness ==
    /\ ipc = "done"
    /\ Len(image_data) = 2
    /\ IsLikelyHeader(image_data[1])
    /\ ~image_data[1].is_likely_ui
    /\ image_data[2].is_likely_ui
    /\ Len(images) = 1

\* The record that is first by vertical rank: the lowest rank, the earliest in
\* the document among equal ranks; and the one that is last.
FirstByRank ==
    CHOOSE r \in Range(image_data) :
        \A q \in Range(image_data) :
            \/ r.y_position < q.y_position
            \/ (r.y_position = q.y_position /\ r.position <= q.position)

LastByRank ==
    CHOOSE r \in Range(image_data) :
        \A q \in Range(image_data) :
            \/ r.y_position > q.y_position
            \/ (r.y_position = q.y_position /\ r.position >= q.position)

\* C5: with more than 2 image records the output never contains the record
\* first by rank if it is isLikelyHeader, nor the record last by rank if it is
\* isLikelyFooter, also when the largest-image fallback fires.
C5_BoundaryDrops ==
    (ipc = "done" /\ Len(image_data) > 2) =>
        /\ IsLikelyHeader(FirstByRank) => FirstByRank \notin Range(content_images)
        /\ IsLikelyFooter(LastByRank) => LastByRank \notin Range(content_images)
        /\ Len(images) = Len(content_images)

\* Both drops fire in one run and the fallback supplies the only image.
C5_Witness ==
    /\ ipc = "done"
    /\ Len(image_data) > 2
    /\ IsLikelyHeader(FirstByRank)
    /\ IsLikelyFooter(LastByRank)
    /\ \A k \in 1..Len(middle_images) : middle_images[k].is_likely_ui
    /\ Len(images) = 1

\* Only the footer drop fires.
C5_WitnessFooterOnly ==
    /\ ipc = "done"
    /\ Len(image_data) > 2
    /\ ~IsLikelyHeader(FirstByRank)
    /\ IsLikelyFooter(LastByRank)
    /\ Len(images) >= 2

\* C6: the images output lists the kept images in source document order, not
\* in the vertical-rank order used for the boundary trimming.
C6_DocumentOrder ==
    ipc = "done" => images = ExpectedFormat(InDocumentOrder(content_images))

NoFlaggedKeyword(r) ==
    LET flagged == UiKeywords \cup TrackingIndicators \cup LogoKeywords \cup FooterKeywords
    IN  ~AnyIn(flagged, Lower(r.url)) /\ ~AnyIn(flagged, Lower(r.alt))

\* The scenario of C7: exactly three images at vertical ranks 0, 1, 2, the
\* rank-0 image of class logo, the rank-2 image of class socialFollow, the
\* rank-1 image 300x300, no flagged keyword in a url or an alt text.
C7_Scenario ==
    /\ ipc = "done"
    /\ Len(all_images) = 3
    /\ Len(image_data) = 3
    /\ \A k \in 1..3 : sorted_by_position[k].y_position = k - 1
    /\ <<"l","o","g","o">> \in Range(sorted_by_position[1].classes)
    /\ <<"s","o","c","i","a","l","F","o","l","l","o","w">> \in Range(sorted_by_position[3].classes)
    /\ sorted_by_position[2].width = Some(300)
    /\ sorted_by_position[2].height = Some(300)
    /\ \A k \in 1..3 : NoFlaggedKeyword(image_data[k])

\* C7 as stated: in the scenario only the rank-1 image is in the output.
C7_OnlyRankOne ==
    C7_Scenario => images = ExpectedFormat(<<sorted_by_position[2]>>)

\* C7 as amended: in the scenario, with the ranks in document order, the
\* rank-0 image is dropped and the rank-1 image kept; the rank-2 image has
\* position ratio 2/3, is not dropped as a footer and is in the output after
\* the rank-1 image unless it is small.
C7_RankOneAndTwo ==
    (C7_Scenario /\ \A k \in 1..3 : image_data[k].y_position = k - 1) =>
        /\ ~IsLikelyFooter(image_data[3])
        /\ images = ExpectedFormat(IF image_data[3].is_small
                                   THEN <<image_data[2]>>
                                   ELSE <<image_data[2], image_data[3]>>)

\* The scenario with a rank-2 image that is not small, so that two images are
\* in the output.
C7_Witness ==
    /\ C7_Scenario
    /\ \A k \in 1..3 : image_data[k].y_position = k - 1
    /\ ~image_data[3].is_small
    /\ Len(images) = 2

\* The whole-call operators return what the steps return.
TextStepsAgree == tpc = "done" => text_blocks = ExtractTextBlocks(doc)

ImgStepsAgree == ipc = "done" => images = ExtractContentImages(idoc)

CtaStepsAgree ==
    cpc = "done" =>
        /\ call_to_action = ExtractCta(adoc)
        /\ embedded_links = ExtractEmbeddedLinks(adoc)

(***************************************************************************)
(* Properties of the CTA Detector and of the Embedded Link Extractor       *)
(***************************************************************************)
\* _extract_cta and _extract_embedded_links have both returned:
\* call_to_action and embedded_links are the values they returned.
CtaReturned == cpc = "done"

MatchesUtilityPattern(s) == \E pattern \in UtilityPatterns : Contains(Lower(s), pattern)

\* The anchor's text or href matches a utility-link pattern.
IsUtilityAnchor(a) == MatchesUtilityPattern(AnchorText(a)) \/ MatchesUtilityPattern(a.href)

\* The anchor is found by the class rule or by the style/parent/role rule.
IsCandidate(a) == IsClassButton(a) \/ IsAttributeButton(a)

\* Positions of the candidates that survive the utility-link filter.
Surviving ==
    {i \in 1..Len(adoc.anchors) :
        IsCandidate(adoc.anchors[i]) /\ ~IsUtilityAnchor(adoc.anchors[i])}

ScoreAt(i) == CalculateCtaPriority(adoc.anchors[i], AnchorText(adoc.anchors[i]))

RecordAt(i) == [text |-> AnchorText(adoc.anchors[i]), url |-> adoc.anchors[i].href]

\* The scores of the anchors 1..k, in document order.
RECURSIVE ScoresUpTo(_)
ScoresUpTo(k) == IF k = 0 THEN <<>> ELSE Append(ScoresUpTo(k - 1), ScoreAt(k))

TopScoredOf(surviving, score) ==
    {i \in surviving : \A j \in surviving : score[i] >= score[j]}

\* Positions of the surviving candidates that no surviving candidate outscores.
TopScored == TopScoredOf(Surviving, ScoresUpTo(Len(adoc.anchors)))

Earliest(positions) == CHOOSE i \in positions : \A j \in positions : i <= j

\* C8: whenever two qualifying candidates have the same highest priority
\* score, _extract_cta returns the one whose anchor is earlier in document
\* order, whichever rule discovered each of them.
C8_EarlierOnTie ==
    (CtaReturned /\ call_to_action # None) =>
        call_to_action = Some(RecordAt(Earliest(TopScored)))

\* C9: _extract_cta returns None if and only if no discovered candidate
\* survives the utility-link filter; otherwise it returns exactly one record
\* with the fields text and url only, taken from a surviving candidate whose
\* score is at least the score of every other surviving candidate.
C9_NoneOrTopScored ==
    CtaReturned =>
        LET top == TopScored
        IN  /\ (call_to_action = None) <=> (top = {})
            /\ top # {} =>
                  /\ Len(call_to_action) = 1
                  /\ DOMAIN call_to_action[1] = {"text", "url"}
                  /\ \E i \in top : call_to_action[1] = RecordAt(i)

\* A candidate is dropped by the filter and the survivors have two scores,
\* the highest of them not at the first survivor.
C9_Witness ==
    /\ CtaReturned
    /\ call_to_action # None
    /\ \E i \in 1..Len(adoc.anchors) :
           IsCandidate(adoc.anchors[i]) /\ IsUtilityAnchor(adoc.anchors[i])
    /\ \E j \in TopScored : \E i \in Surviving : i < j /\ ScoreAt(i) < ScoreAt(j)

\* C10: an anchor whose text or href matches a utility-link pattern is never
\* the call to action and never among the embedded links, whatever its
\* classes, styling, score or container.
C10_UtilityExcluded ==
    CtaReturned =>
        \A i \in 1..Len(adoc.anchors) :
            IsUtilityAnchor(adoc.anchors[i]) =>
                /\ call_to_action # Some(RecordAt(i))
                /\ \A k \in 1..Len(embedded_links) : embedded_links[k] # RecordAt(i)

\* Both extractors have returned for a document with a content container that
\* holds a utility anchor found by the class rule and scored above the
\* returned call to action, next to a kept embedded link.
C10_Witness ==
    /\ CtaReturned
    /\ adoc.areas # <<>>
    /\ call_to_action # None
    /\ embedded_links # <<>>
    /\ \E i \in 1..Len(adoc.anchors) :
           /\ adoc.areas[1].from <= i /\ i <= adoc.areas[1].to
           /\ IsClassButton(adoc.anchors[i])
           /\ IsUtilityAnchor(adoc.anchors[i])
           /\ \A j \in Surviving : ScoreAt(i) > ScoreAt(j)

\* The entries of links whose url no earlier entry has, in order.
RECURSIVE FirstOccurrences(_)
FirstOccurrences(links) ==
    IF links = <<>> THEN <<>>
    ELSE LET front == SubSeq(links, 1, Len(links) - 1)
             last == links[Len(links)]
         IN  IF \E m \in 1..Len(front) : front[m].url = last.url
             THEN FirstOccurrences(front)
             ELSE Append(FirstOccurrences(front), last)

\* C11: the urls of embedded_links are pairwise distinct; for each url the
\* entry kept is the first link with that href that passed all filters, a
\* later one is dropped even if its text differs, and the kept entries are
\* in the order of their first occurrences.
C11_FirstOccurrenceKept ==
    CtaReturned =>
        /\ \A i, j \in 1..Len(embedded_links) :
               i # j => embedded_links[i].url # embedded_links[j].url
        /\ embedded_links = FirstOccurrences(user_links)

\* Two links that passed the filters share a url and differ in text, a link
\* with another url stands between them, and two entries are kept.
C11_Witness ==
    /\ CtaReturned
    /\ Len(embedded_links) = 2
    /\ \E i, j \in 1..Len(user_links) :
           /\ i + 1 < j
           /\ user_links[i].url = user_links[j].url
           /\ user_links[i].text # user_links[j].text
           /\ user_links[i + 1].url # user_links[i].url

\* C12: every anchor that qualifies as a call-to-action candidate (by marker
\* class, by inline style, by its td parent or by role) is absent from
\* embedded_links; in particular the anchor returned as the call to action
\* is not among the embedded links.
C12_CandidatesExcluded ==
    CtaReturned =>
        \A i \in 1..Len(adoc.anchors) :
            IsCandidate(adoc.anchors[i]) =>
                \A k \in 1..Len(embedded_links) : embedded_links[k] # RecordAt(i)

\* Position i is inside one of the content containers.
InsideContainer(i) ==
    \E k \in 1..Len(adoc.areas) : adoc.areas[k].from <= i /\ i <= adoc.areas[k].to

\* The records of the anchors 1..k that are in scope and pass the filters.
RECURSIVE ScopedRecords(_)
ScopedRecords(k) ==
    IF k = 0 THEN <<>>
    ELSE IF (adoc.areas = <<>> \/ InsideContainer(k)) /\ KeepsLink(adoc.anchors[k])
         THEN Append(ScopedRecords(k - 1), RecordAt(k))
         ELSE ScopedRecords(k - 1)

\* C13: when the document has an element with a content-container class, the
\* embedded links come from the anchors inside such containers only; when it
\* has none, every anchor of the document is a candidate.
C13_ScopedToContainers ==
    CtaReturned => embedded_links = FirstOccurrences(ScopedRecords(Len(adoc.anchors)))

\* A document with a container: an anchor inside it is kept and an anchor
\* outside it, which passes every filter and has another url, is not.
C13_Witness ==
    /\ CtaReturned
    /\ adoc.areas # <<>>
    /\ embedded_links # <<>>
    /\ \E i \in 1..Len(adoc.anchors) :
           /\ ~InsideContainer(i)
           /\ KeepsLink(adoc.anchors[i])
           /\ \A k \in 1..Len(embedded_links) : embedded_links[k].url # adoc.anchors[i].href

(***************************************************************************)
(* Properties of parse_email_content                                       *)
(***************************************************************************)
\* The html body of the campaign, the empty string when the field is missing.
HtmlGiven == IF "html" \in DOMAIN campaign_data THEN campaign_data.html ELSE <<>>

LacksBlocks == HtmlGiven = <<>> \/ HtmlGiven.text = <<>>
LacksImages == HtmlGiven = <<>> \/ HtmlGiven.images.imgs = <<>>
LacksLinks == HtmlGiven = <<>> \/ HtmlGiven.links.anchors = <<>>
LacksButtons ==
    \/ LacksLinks
    \/ \A k \in 1..Len(HtmlGiven.links.anchors) : ~IsCandidate(HtmlGiven.links.anchors[k])

\* What the returned record must be.
ReturnedRecordOk ==
    /\ DOMAIN parse_result =
           {"title", "text_blocks", "images", "call_to_action", "embedded_links"}
    /\ parse_result.title =
           (IF "subject_line" \in DOMAIN campaign_data
            THEN campaign_data.subject_line ELSE <<>>)
    /\ LacksBlocks => parse_result.text_blocks = <<>>
    /\ LacksImages => parse_result.images = <<>>
    /\ LacksButtons => parse_result.call_to_action = None
    /\ LacksLinks => parse_result.embedded_links = <<>>

\* C14: parse_email_content does not fail on a document that lacks block
\* nodes, images, buttons or links (the empty document and a missing html
\* field included): no step of it has a failing branch, and the record
\* returned has the subject line (or the empty string) as title, and
\* [] / null for the parts the document lacks.
C14_MissingPartsAreEmpty == ppc = "returned" => ReturnedRecordOk

\* The call has returned for a campaign object with neither html nor
\* subject_line.
C14_Witness ==
    /\ ppc = "returned"
    /\ "html" \notin DOMAIN campaign_data
    /\ "subject_line" \notin DOMAIN campaign_data
    /\ parse_result.title = <<>>
    /\ parse_result.call_to_action = None

(***************************************************************************)
(* Properties of the webhook layer                                         *)
(***************************************************************************)
\* The thread's call of parse_email_content has returned.
HasParsed(thread) == thread.structured # <<>>

CarriedId(request) ==
    IF request.form # NoForm
    THEN Get(request.form, "id", "")
    ELSE IF /\ request.json.kind = "object"
            /\ "data" \in DOMAIN request.json.members
            /\ request.json.members.data.kind = "object"
            /\ "id" \in DOMAIN request.json.members.data.members
            /\ request.json.members.data.members.id.kind = "string"
         THEN request.json.members.data.members.id.value
         ELSE ""

IsCampaignPost(request) == request.method = "POST" /\ CarriedId(request) # ""

\* The positions in responses of the POSTs that carry a campaign id.
CampaignPosts == {k \in 1..Len(responses) : IsCampaignPost(responses[k].request)}

\* The position in responses of the request that started thread t.
RequestOf(t) ==
    CHOOSE k \in CampaignPosts : Cardinality({j \in CampaignPosts : j <= k}) = t

\* Every POST with a campaign id has exactly one thread, for that id, and
\* the answer 200 "queued" with the id.
QueuedOncePerPost ==
    /\ Len(threads) = Cardinality(CampaignPosts)
    /\ \A t \in 1..Len(threads) :
           /\ threads[t].campaign_id = CarriedId(responses[RequestOf(t)].request)
           /\ responses[RequestOf(t)].response.status = 200
           /\ responses[RequestOf(t)].response.body =
                  [status |-> "queued", campaign_id |-> threads[t].campaign_id]

\* A response, once given, stays as it is, and the handler returns while the
\* thread it started has not run.
AnswersNotRevised ==
    /\ Len(responses') >= Len(responses)
    /\ SubSeq(responses', 1, Len(responses)) = responses
    /\ Len(threads') > Len(threads) =>
           /\ Len(threads') = Len(threads) + 1
           /\ Len(responses') = Len(responses) + 1
           /\ threads'[Len(threads')].pc = "fetch"

\* C16: a POST with a campaign id starts exactly one background thread, is
\* answered without waiting for it with 200, status "queued" and the id, and
\* the answer is the same whatever the thread does afterwards.
C16_QueuedAndNotJoined == []QueuedOncePerPost /\ [][AnswersNotRevised]_vars

\* A background run has failed and another has created its post, both
\* answered "queued".
C16_Witness ==
    /\ Len(threads) = 2
    /\ threads[1].pc = "failed"
    /\ threads[2].pc = "done"
    /\ responses[RequestOf(1)].response.body.status = "queued"
    /\ responses[RequestOf(2)].response.body.status = "queued"

\* C17: whenever the processing of a campaign received by the webhook fails
\* (fetch, extraction or post creation), the caller of the webhook is given
\* a failure, such as an HTTP error status; the error is not absorbed while
\* the caller is told the request succeeded.
C17_FailuresReachCaller ==
    \A t \in 1..Len(threads) :
        threads[t].pc = "failed" => responses[RequestOf(t)].response.status >= 400

\* No work is started for request k: no thread belongs to it.
NothingStartedFor(k) == \A t \in 1..Len(threads) : RequestOf(t) # k

\* C18: every GET or HEAD is answered with 200 "OK", every POST without a
\* campaign id with 400, and in both cases no fetch, extraction, upload or
\* post creation is started.
C18_ValidationAndMissingId ==
    \A k \in 1..Len(responses) :
        LET request == responses[k].request
            response == responses[k].response
        IN  /\ request.method \in {"GET", "HEAD"} =>
                   /\ response = [status |-> 200, body |-> "OK"]
                   /\ NothingStartedFor(k)
            /\ (request.method = "POST" /\ CarriedId(request) = "") =>
                   /\ response.status = 400
                   /\ NothingStartedFor(k)

\* The log entries of the image loop.
ImageEvents(log) == SelectSeq(log, LAMBDA ev : ev \in {"image", "image_failed"})

\* The steps of a run come in the order fetch, parse, images, post.
RECURSIVE InOrder(_, _)
InOrder(log, stage) ==
    IF log = <<>> THEN TRUE
    ELSE LET ev == Head(log)
         IN  CASE ev = "fetch" -> stage = 0 /\ InOrder(Tail(log), 1)
               [] ev = "fetch_failed" -> stage = 0 /\ Tail(log) = <<>>
               [] ev = "parse" -> stage = 1 /\ InOrder(Tail(log), 2)
               [] ev = "parse_failed" -> stage = 1 /\ Tail(log) = <<>>
               [] ev \in {"image", "image_failed"} -> stage = 2 /\ InOrder(Tail(log), 2)
               [] ev \in {"post", "post_failed"} -> stage = 2 /\ Tail(log) = <<>>

\* The entries uploaded for the images whose log entry is "image", in order.
RECURSIVE UploadedFor(_, _)
UploadedFor(imgs, events) ==
    IF events = <<>> THEN <<>>
    ELSE IF Head(events) = "image"
         THEN <<[media_id |-> MediaItem(ExtractFilename(Head(imgs).url)).id,
                 url |-> MediaItem(ExtractFilename(Head(imgs).url)).source_url,
                 alt |-> Head(imgs).alt]>> \o UploadedFor(Tail(imgs), Tail(events))
         ELSE UploadedFor(Tail(imgs), Tail(events))

Last(s) == s[Len(s)]

RunInOrder(thread) ==
    LET log == thread.log
        events == ImageEvents(log)
        attempted == log # <<>> /\ Last(log) \in {"post", "post_failed"}
        imgs == thread.structured.images
    IN  /\ InOrder(log, 0)
        \* every image is attempted before the post is, and none twice
        /\ HasParsed(thread) => Len(events) <= Len(imgs)
        /\ attempted => Len(events) = Len(imgs)
        \* no image work after a failed fetch or parse
        /\ ~HasParsed(thread) => events = <<>> /\ thread.uploaded_images = <<>>
        \* a failed image is only left out
        /\ HasParsed(thread) => thread.uploaded_images = UploadedFor(imgs, events)
        /\ thread.pc = "failed" =>
               Last(log) \in {"fetch_failed", "parse_failed", "post_failed"}
        /\ thread.pc = "done" <=> (log # <<>> /\ Last(log) = "post")

\* C19: a background run fetches, parses, attempts every content image and
\* then creates the draft post, in this order; the post is created at most
\* once, and only after all of that; a failed fetch or parse means no upload
\* and no post; a failed image is only left out, and the list given to
\* create_post is an order-preserving subsequence of the content images.
C19_RunOrder ==
    /\ \A t \in 1..Len(threads) : RunInOrder(threads[t])
    /\ Len(posts) = Cardinality({t \in 1..Len(threads) : threads[t].pc = "done"})
    /\ \A t \in 1..Len(threads) :
           threads[t].pc = "done" =>
               \E k \in 1..Len(posts) :
                   /\ posts[k].title = threads[t].structured.title
                   /\ posts[k].meta.newsletter_images = threads[t].uploaded_images

\* A run whose first image failed and whose second image was uploaded has
\* created its post with that one image.
C19_Witness ==
    \E t \in 1..Len(threads) :
        /\ threads[t].pc = "done"
        /\ ImageEvents(threads[t].log) = <<"image_failed", "image">>
        /\ Len(threads[t].uploaded_images) = 1
        /\ \E k \in 1..Len(posts) :
               posts[k].meta.newsletter_images = threads[t].uploaded_images

(***************************************************************************)
(* Properties of the largest-image fallback                                *)
(***************************************************************************)
\* width x height of a record, a missing dimension counting as 0
Product(r) ==
    (IF r.width = None THEN 0 ELSE r.width[1]) * (IF r.height = None THEN 0 ELSE r.height[1])

AllMiddleUi == \A k \in 1..Len(middle_images) : middle_images[k].is_likely_ui

\* The earliest position in the middle sequence of a largest product.
LargestMiddle ==
    CHOOSE j \in 1..Len(middle_images) :
        /\ \A k \in 1..Len(middle_images) :
               Product(middle_images[j]) >= Product(middle_images[k])
        /\ \A k \in 1..(j - 1) : Product(middle_images[k]) < Product(middle_images[j])

\* C20: with more than 2 image records, when the middle sequence is not
\* empty and all of it is isLikelyUi, the output is the one middle record of
\* the largest width x height (missing dimension as 0, the earliest in rank
\* order on ties); the output is empty only when the middle sequence is; and
\* an isLikelyUi image is in the output only through this fallback.
C20_LargestImageFallback ==
    (ipc = "done" /\ Len(image_data) > 2) =>
        /\ (middle_images # <<>> /\ AllMiddleUi) =>
               /\ content_images = <<middle_images[LargestMiddle]>>
               /\ images = <<[url |-> middle_images[LargestMiddle].url,
                              alt |-> middle_images[LargestMiddle].alt]>>
        /\ images = <<>> => middle_images = <<>>
        /\ Len(images) = Len(content_images)
        /\ \A k \in 1..Len(content_images) :
               content_images[k].is_likely_ui =>
                   AllMiddleUi /\ Len(content_images) = 1

\* The fallback fires on a middle sequence whose first record is not the
\* largest.
C20_Witness ==
    /\ ipc = "done"
    /\ Len(image_data) > 2
    /\ Len(middle_images) >= 2
    /\ AllMiddleUi
    /\ Len(images) = 1
    /\ Product(middle_images[1]) < Product(content_images[1])

(***************************************************************************)
(* Properties of nodes nested in list items                                *)
(***************************************************************************)
\* The blocks of the top-level nodes of a forest alone, in order.
RECURSIVE TopLevelBlocks(_)
TopLevelBlocks(forest) ==
    IF forest = <<>> THEN <<>>
    ELSE RawBlocksOf(Head(forest)) \o TopLevelBlocks(Tail(forest))

\* C21: a heading, paragraph or list nested in a list item is consumed as
\* part of the enclosing list only and gives no block of its own, so the
\* output is made of the blocks of the nodes outside list items.
C21_NestedNodesConsumed ==
    tpc = "done" => text_blocks = MergePass(TopLevelBlocks(doc))

(***************************************************************************)
(* Properties of the priority score                                        *)
(***************************************************************************)
\* The six increments, each on its own.
ClassPoints(a) ==
    IF \E kw \in {<<"c","t","a">>, <<"a","c","t","i","o","n">>, <<"p","r","i","m","a","r","y">>, <<"m","a","i","n">>} :
           Contains(Lower(JoinSpace(a.class)), kw)
    THEN 10 ELSE 0

PhrasePoints(a) ==
    IF \E phrase \in CtaPhrases : Contains(Lower(AnchorText(a)), phrase) THEN 5 ELSE 0

ShortPoints(a) == IF Len(Strip(JoinStripped(a.pieces))) < 30 THEN 3 ELSE 0

WeightPoints(a) ==
    IF Contains(Lower(a.style), <<"b","o","l","d">>) \/ Contains(Lower(a.style), <<"w","e","i","g","h","t">>)
    THEN 2 ELSE 0

ColorPoints(a) ==
    IF \/ Contains(Lower(a.style), <<"b","a","c","k","g","r","o","u","n","d">>)
       \/ Contains(Lower(a.style), <<"b","g">>)
       \/ Contains(Lower(a.style), <<"c","o","l","o","r">>)
    THEN 2 ELSE 0

\* The parent's style is compared in lower case, its classes as written.
ParentPoints(a) ==
    IF \E align \in {<<"c","e","n","t","e","r">>, <<"a","l","i","g","n">>, <<"m","a","r","g","i","n",":","a","u","t","o">>} :
           \/ Contains(Lower(a.parent.style), align)
           \/ Contains(JoinSpace(a.parent.class), align)
    THEN 2 ELSE 0

SumOfIncrements(a) ==
    ClassPoints(a) + PhrasePoints(a) + ShortPoints(a)
        + WeightPoints(a) + ColorPoints(a) + ParentPoints(a)

\* The anchor at position i is a candidate that survives the filter.
SurvivesAt(i) == IsCandidate(adoc.anchors[i]) /\ ~IsUtilityAnchor(adoc.anchors[i])

\* The surviving candidates in the order _extract_cta scores them: those
\* found by class, then the others, each group in document order.
ScoredOrder ==
    LET n == Len(adoc.anchors)
        survivors == SelectSeq([i \in 1..n |-> i], SurvivesAt)
    IN  SelectSeq(survivors, LAMBDA i : IsClassButton(adoc.anchors[i]))
            \o SelectSeq(survivors, LAMBDA i : ~IsClassButton(adoc.anchors[i]))

\* The anchor has class cta and the text "Buy Now".
IsCtaBuyNow(a) ==
    /\ \E k \in 1..Len(a.class) : a.class[k] = <<"c","t","a">>
    /\ AnchorText(a) = <<"B","u","y"," ","N","o","w">>

\* C22: the priority score of a candidate is the sum of the six increments
\* (+10 class keyword, +5 action phrase, +3 trimmed text shorter than 30,
\* +2 bold/weight style, +2 background/color style, +2 centred parent) and
\* nothing else, so it lies in 0..24; an anchor of class cta with the text
\* "Buy Now" scores at least 18 and beats every candidate that has no cta,
\* action, primary or main class.
C22_ScoreIsSumOfIncrements ==
    CtaReturned =>
        LET order == ScoredOrder
            score == [k \in 1..Len(order) |-> SumOfIncrements(adoc.anchors[order[k]])]
            unclassed == {k \in 1..Len(order) : ClassPoints(adoc.anchors[order[k]]) = 0}
        IN  /\ Len(button_data) = Len(order)
            /\ \A k \in 1..Len(order) :
                   /\ button_data[k].priority_score = score[k]
                   /\ button_data[k].priority_score \in 0..24
            /\ \A k \in 1..Len(order) :
                   IsCtaBuyNow(adoc.anchors[order[k]]) =>
                       /\ button_data[k].priority_score >= 18
                       /\ \A j \in unclassed :
                              button_data[j].priority_score < button_data[k].priority_score
                       /\ \E j \in (1..Len(order)) \ unclassed :
                              call_to_action = <<RecordAt(order[j])>>

\* The "Buy Now" anchor of class cta follows a candidate without such a
\* class that collects every other increment, and is returned.
C22_Witness ==
    /\ CtaReturned
    /\ Len(adoc.anchors) = 2
    /\ IsCtaBuyNow(adoc.anchors[2])
    /\ Len(button_data) = 2
    /\ button_data[1].priority_score = 18
    /\ button_data[2].priority_score = 14
    /\ call_to_action = <<RecordAt(2)>>

\* An anchor collects all six increments.
C22_FullScore ==
    /\ CtaReturned
    /\ Len(button_data) = 1
    /\ button_data[1].priority_score = 24

(***************************************************************************)
(* Properties of the position ratio                                        *)
(***************************************************************************)
\* index / number of img nodes is above 0.8
AboveFourFifths(r) == 5 * r.position > 4 * Len(idoc.imgs)

\* At least one of the footer signals besides the position.
HasFooterSignal(r) ==
    \/ \E kw \in FooterKeywords : Contains(Lower(r.url), kw) \/ Contains(Lower(r.alt), kw)
    \/ \E k \in 1..Len(r.parent_classes) : r.parent_classes[k] \in FooterContainers
    \/ r.is_small

\* C23: every image record has 0 <= positionRatio < 1, the ratio being
\* index / (number of img nodes), so the last img node's is (n-1)/n; hence
\* in a document of 5 or fewer img nodes no image is isLikelyFooter and the
\* footer drop never fires, whatever the keywords, classes or size.
C23_RatioBelowOne ==
    ipc = "done" =>
        LET n == Len(idoc.imgs)
        IN  /\ \A k \in 1..Len(image_data) :
                   /\ image_data[k].position_ratio =
                          [num |-> image_data[k].position, den |-> n]
                   /\ 0 <= image_data[k].position
                   /\ image_data[k].position < n
                   /\ idoc.imgs[image_data[k].position + 1].attrs.src = image_data[k].url
            /\ (n > 0 /\ idoc.imgs[n].attrs.src # <<>>) =>
                   image_data[Len(image_data)].position_ratio = [num |-> n - 1, den |-> n]
            /\ n <= 5 =>
                   /\ \A k \in 1..Len(image_data) :
                          /\ ~AboveFourFifths(image_data[k])
                          /\ ~IsLikelyFooter(image_data[k])
                   /\ Len(image_data) > 2 =>
                          /\ middle_images # <<>>
                          /\ middle_images[Len(middle_images)] =
                                 sorted_by_position[Len(sorted_by_position)]

\* A document of 5 img nodes whose last image is small, has a footer keyword
\* and sits in a footer container, and is kept in the middle sequence.
C23_Witness ==
    /\ ipc = "done"
    /\ Len(idoc.imgs) = 5
    /\ Len(image_data) = 5
    /\ image_data[5].position_ratio = [num |-> 4, den |-> 5]
    /\ image_data[5].is_small
    /\ HasFooterSignal(image_data[5])
    /\ middle_images[Len(middle_images)] = image_data[5]

(***************************************************************************)
(* Properties of repeated deliveries                                       *)
(***************************************************************************)
\* The runs started for campaign id.
RunsFor(id) == {t \in 1..Len(threads) : threads[t].campaign_id = id}

\* The accepted POST deliveries that carry campaign id.
DeliveriesOf(id) == {k \in CampaignPosts : CarriedId(responses[k].request) = id}

\* The run has uploaded every content image and created its post.
FullySucceeded(thread) ==
    thread.pc = "done" /\ \A k \in 1..Len(thread.log) : thread.log[k] # "image_failed"

\* A step changes at most one run, and the run it changes moves on from its
\* own position only.
RunsStepAlone ==
    \A t \in 1..Len(threads) :
        threads'[t] # threads[t] =>
            /\ \A u \in 1..Len(threads) : u # t => threads'[u] = threads[u]
            /\ threads'[t].campaign_id = threads[t].campaign_id
            /\ threads[t].pc \notin {"done", "failed"}
            /\ threads[t].pc = "fetch" /\ threads'[t].pc # "failed" =>
                   threads'[t].campaign_data = CampaignStore(threads[t].campaign_id)

\* Every delivery has its own run, every finished run its own post, and a
\* run that succeeded throughout has uploaded each of its images.
OneRunPerDelivery ==
    /\ \A t \in 1..Len(threads) :
           Cardinality(RunsFor(threads[t].campaign_id))
               = Cardinality(DeliveriesOf(threads[t].campaign_id))
    /\ Len(posts) = Cardinality({t \in 1..Len(threads) : threads[t].pc = "done"})
    /\ \A t \in 1..Len(threads) :
           FullySucceeded(threads[t]) =>
               Len(threads[t].uploaded_images) = Len(threads[t].structured.images)

\* C24: the webhook layer neither de-duplicates nor serialises by campaign
\* id: k accepted deliveries of one id start k runs that interleave freely,
\* create k draft posts when all succeed, each uploading every content image,
\* and no run observes or waits for another.
C24_NoDeduplication == []OneRunPerDelivery /\ [][RunsStepAlone]_vars

\* Two deliveries of the same campaign: both runs have uploaded both images
\* and created their posts, two equal drafts.
C24_Witness ==
    /\ Len(threads) = 2
    /\ threads[1].campaign_id = threads[2].campaign_id
    /\ FullySucceeded(threads[1]) /\ FullySucceeded(threads[2])
    /\ Len(threads[1].uploaded_images) = 2
    /\ Len(threads[2].uploaded_images) = 2
    /\ Len(posts) = 2
    /\ posts[1] = posts[2]

\* The second of two runs for the same campaign has created its post while
\* the first is still between two image uploads.
C24_Overtaken ==
    /\ Len(threads) = 2
    /\ threads[1].campaign_id = threads[2].campaign_id
    /\ threads[1].pc = "upload" /\ threads[1].i = 1
    /\ threads[2].pc = "done"
    /\ Len(posts) = 1

=============================================================================
